---- MODULE Spec2Model ----
(***************************************************************************)
(* A model of the Kudu master catalog manager                              *)
(* (src/src/kudu/master/catalog_manager.cc): the leadership gate, the      *)
(* post-election prepare task, the in-memory directory with its            *)
(* copy-on-write metadata locks, the system tablet, and the request        *)
(* handlers and background worker that change them.                        *)
(***************************************************************************)
EXTENDS Integers, Sequences, FiniteSets, TLC

(***************************************************************************)
(* Bounds of the model.                                                    *)
(***************************************************************************)
MaxTables == 2      \* table ids GenerateId() can hand out
MaxTablets == 2     \* tablet ids GenerateId() can hand out
MaxTerm == 2        \* terms of the system tablet's consensus
MaxVersion == 1     \* schema versions a table can reach
MaxElectCb == 1     \* queued ElectedAsLeaderCb closures
MaxOps == 2         \* operations appended to the consensus message queue
MaxKeys == 2        \* CA key pairs and token-signing keys the master generates
MaxAttempts == 2    \* attempts of one RPC task

Handlers == {1, 2}            \* service-pool threads running request handlers
BgThread == 0                 \* the catalog manager background thread
Threads == Handlers \cup {BgThread}
NoOwner == -1

Names == {"a", "b"}           \* table names clients use
NoName == ""
TServers == {"ts1", "ts2", "ts3"}  \* tablet servers
NoTS == ""
TableIds == 1..MaxTables
TabletIds == 1..MaxTablets
NoId == 0

(***************************************************************************)
(* Program constants (gflags defaults).                                    *)
(***************************************************************************)
FLAGS_max_num_replicas == 7
FLAGS_max_create_tablets_per_ts == 20
FLAGS_allow_unsafe_replication_factor == FALSE
FLAGS_catalog_manager_check_ts_count_for_create_table == TRUE
FLAGS_catalog_manager_wait_for_new_tablets_to_elect_leader == TRUE
FLAGS_master_tombstone_evicted_tablet_replicas == TRUE
FLAGS_master_add_server_when_underreplicated == TRUE
kMinimumTerm == 0
kInvalidOpIdIndex == -1
NOT_YET_REPORTED == -1
InitialReadyTerm == -1

VARIABLES
  state_,                \* CatalogManager::state_
  leader_ready_term,     \* CatalogManager::leader_ready_term_
  current_term,          \* the system tablet's consensus: current term
  leader_is_self,        \* ... and whether its leader_uuid is this master
  gate_readers,          \* threads holding leader_lock_ shared
  gate_writer,           \* the prepare task holds leader_lock_ exclusively
  gate_wwait,            \* the prepare task is blocked acquiring leader_lock_
  elect_cb,              \* ElectedAsLeaderCb closures queued on the pool
  prep,                  \* the leader-initialization pool's single thread
  sys_tables,            \* system tablet: SysTable entries by id
  sys_tablets,           \* system tablet: SysTablet entries by id
  table_ids_map,         \* CatalogManager::table_ids_map_ (set of ids)
  table_names_map,       \* CatalogManager::table_names_map_ (name -> id)
  tablet_map,            \* CatalogManager::tablet_map_ (set of ids)
  reserved_table_names,  \* CatalogManager::reserved_table_names_
  tbl,                   \* TableInfo objects by id
  tab,                   \* TabletInfo objects by id
  tasks,                 \* RPC tasks created so far
  th,                    \* per thread: position, request, locals, response
  message_queue_,        \* ConsensusPeersTest: the leader's queue and its peers
  sys_security,          \* system tablet: the CA entry and the TSK entries
  master_,               \* Master: cert_authority(), token_signer()
  rpc_task,              \* one RetryingTSRpcTask: state_, attempt_, position
  background_tasks_      \* CatalogManagerBgTasks: its flags, the worker's position

coreVars == <<state_, leader_ready_term, current_term, leader_is_self,
          gate_readers, gate_writer, gate_wwait, elect_cb, prep,
          sys_tables, sys_tablets, table_ids_map, table_names_map,
          tablet_map, reserved_table_names, tbl, tab, tasks, th>>
\* the components beside the directory
sideVars == <<message_queue_, sys_security, master_, rpc_task, background_tasks_>>
vars == <<coreVars, sideVars>>

leaderVars == <<state_, leader_ready_term, current_term, leader_is_self,
                elect_cb, prep, gate_writer, gate_wwait>>
sysVars == <<sys_tables, sys_tablets>>
mapVars == <<table_ids_map, table_names_map, tablet_map>>
dirVars == <<sys_tables, sys_tablets, table_ids_map, table_names_map,
             tablet_map, reserved_table_names, tbl, tab, tasks>>

NoRec == [state |-> "NONE"]
NoObj == [wl |-> -2]
NoCState == [opid |-> -2]
NoSchema == {"<none>"}

(***************************************************************************)
(* Persistent records.                                                     *)
(***************************************************************************)
TableRec(s, n, v, r, sch, fas) ==
  [state |-> s, name |-> n, version |-> v, num_replicas |-> r,
   schema |-> sch, fas |-> fas]

TabletRec(s, t, ps, pe, cs) ==
  [state |-> s, table_id |-> t, pstart |-> ps, pend |-> pe, cstate |-> cs]

\* PersistentTableInfo::is_deleted / is_running, PersistentTabletInfo::...
TableIsDeleted(r) == r.state = "REMOVED"
TableIsRunning(r) == r.state \in {"RUNNING", "ALTERING"}
TabletIsDeleted(r) == r.state \in {"REPLACED", "DELETED"}
TabletIsRunning(r) == r.state = "RUNNING"

(***************************************************************************)
(* Thread-local state.                                                     *)
(***************************************************************************)
IdleTh ==
  [pc |-> "idle", op |-> "none", owns |-> FALSE, name |-> NoName,
   nr |-> 0, parts |-> << >>, newname |-> NoName, tbl |-> NoId,
   todo |-> {}, held |-> {}, adds |-> {}, drops |-> {}, reserved |-> NoName,
   resp |-> "none", st |-> "none", ws |-> "none", tid |-> NoId, id |-> NoId,
   oldname |-> NoName, commit |-> FALSE, done |-> FALSE, mutated |-> {}]

IdlePrep == [pc |-> "idle", term_before_wait |-> -1, term |-> -1, ok |-> {}]

Keys == {0, 1}                \* partition keys; 0 is the empty (unbounded) key
EmptyTmap == [k \in Keys |-> NoId]
EmptySvc == [v \in NOT_YET_REPORTED..MaxVersion |-> 0]

\* the remote peers of the 3-peer configuration
RemotePeers == {"peer-1", "peer-2"}
\* a remote peer: the request in flight, what the proxy received, the
\* response on its way back (0: none), whether the proxy delays its response,
\* and the index the queue has seen acknowledged
IdlePeer == [sent |-> 0, last_received |-> 0, resp |-> 0, delay |-> FALSE,
             watermark |-> 0]
\* SetUp and SetLeaderMode: an empty queue, nothing committed
InitialQueue ==
  [appended |-> 0, local |-> 0, committed |-> 0,
   peers |-> [p \in RemotePeers |-> IdlePeer]]

\* no CA record and no TSK entry in the system tablet; the master's
\* certificate authority is not initialized (0), its signer has no key, and
\* no key material was generated yet
NoKey == 0
InitialSysSecurity == [ca |-> NoKey, tsks |-> {}]
InitialMaster ==
  [cert_authority |-> NoKey, token_signer |-> {}, generated |-> 0, key_seq |-> 0]

\* no subclass data: the task stands for any subclass
NoCall == [type |-> "none"]

\* RetryingTSRpcTask's constructor (lines 2416-2426) and AddTask (lines
\* 4591-4597); Run() is to be called
InitialTask ==
  [state |-> "kStateRunning", attempt |-> 0, pc |-> "run", resp |-> "none",
   handled |-> FALSE, expired |-> FALSE, never |-> FALSE, inflight |-> FALSE,
   scheduled |-> FALSE, pending |-> TRUE, removals |-> 0,
   waiter |-> "none", call |-> NoCall, req |-> NoCall]

\* CatalogManagerBgTasks' constructor (lines 426-432) and the worker at the
\* top of Run's loop.  signalled: cond_'s broadcast has reached the sleeping
\* worker; woken: Wake was called since the last Wait returned; published /
\* seen count the publications made and those an iteration has started
\* after; caller is the handler between its publication and its Wake.
InitialBgTasks ==
  [closing_ |-> FALSE, pending_updates_ |-> FALSE, pc |-> "run",
   signalled |-> FALSE, woken |-> FALSE, published |-> 0, seen |-> 0,
   caller |-> "idle"]

Init ==
  /\ rpc_task = InitialTask
  /\ background_tasks_ = InitialBgTasks
  /\ message_queue_ = InitialQueue
  /\ sys_security = InitialSysSecurity
  /\ master_ = InitialMaster
  /\ state_ = "kConstructed"
  /\ leader_ready_term = InitialReadyTerm
  /\ current_term = 0
  /\ leader_is_self = FALSE
  /\ gate_readers = {}
  /\ gate_writer = FALSE
  /\ gate_wwait = FALSE
  /\ elect_cb = 0
  /\ prep = IdlePrep
  /\ sys_tables = [i \in TableIds |-> NoRec]
  /\ sys_tablets = [i \in TabletIds |-> NoRec]
  /\ table_ids_map = {}
  /\ table_names_map = [n \in Names |-> NoId]
  /\ tablet_map = {}
  /\ reserved_table_names = {}
  /\ tbl = [i \in TableIds |-> NoObj]
  /\ tab = [i \in TabletIds |-> NoObj]
  /\ tasks = {}
  /\ th = [t \in Threads |-> IdleTh]

(***************************************************************************)
(* The system tablet's consensus and the catalog manager's life cycle      *)
(* (external events).                                                      *)
(***************************************************************************)
Alive == state_ # "kCrashed"

\* CatalogManager::Init: kConstructed -> kStarting
InitStart ==
  /\ state_ = "kConstructed"
  /\ state_' = "kStarting"
  /\ UNCHANGED <<sideVars, leader_ready_term, current_term, leader_is_self, gate_readers,
                 gate_writer, gate_wwait, elect_cb, prep, dirVars, th>>

\* CatalogManager::Init: the sys catalog runs, kStarting -> kRunning
InitDone ==
  /\ state_ = "kStarting"
  /\ state_' = "kRunning"
  /\ UNCHANGED <<sideVars, leader_ready_term, current_term, leader_is_self, gate_readers,
                 gate_writer, gate_wwait, elect_cb, prep, dirVars, th>>

\* CatalogManager::Shutdown: state_ = kClosing
Shutdown ==
  /\ state_ = "kRunning"
  /\ state_' = "kClosing"
  /\ UNCHANGED <<sideVars, leader_ready_term, current_term, leader_is_self, gate_readers,
                 gate_writer, gate_wwait, elect_cb, prep, dirVars, th>>

\* An election of the system tablet's consensus: the term advances; when this
\* master wins, consensus calls ElectedAsLeaderCb, which queues the prepare task.
TermChange ==
  /\ state_ \in {"kStarting", "kRunning"}
  /\ current_term < MaxTerm
  /\ current_term' = current_term + 1
  /\ \E b \in BOOLEAN :
       /\ leader_is_self' = b
       /\ elect_cb' = IF b /\ elect_cb < MaxElectCb THEN elect_cb + 1 ELSE elect_cb
  /\ UNCHANGED <<sideVars, state_, leader_ready_term, gate_readers, gate_writer,
                 gate_wwait, prep, dirVars, th>>

(***************************************************************************)
(* CatalogManager::PrepareForLeadershipTask                                *)
(***************************************************************************)
\* lines 857-875: read the term; nothing to do when it is the ready term
PrepStart ==
  /\ Alive /\ state_ \in {"kRunning", "kClosing"}
  /\ prep.pc = "idle" /\ elect_cb > 0
  /\ elect_cb' = elect_cb - 1
  /\ prep' = IF leader_ready_term = current_term
               THEN IdlePrep
               ELSE [IdlePrep EXCEPT !.pc = "wait", !.term_before_wait = current_term]
  /\ UNCHANGED <<sideVars, state_, leader_ready_term, current_term, leader_is_self,
                 gate_readers, gate_writer, gate_wwait, dirVars, th>>

\* lines 876-886, WaitUntilCaughtUpAsLeader: not the leader -> give up;
\* a timeout is fatal
PrepWait ==
  /\ Alive /\ prep.pc = "wait"
  /\ \/ /\ ~leader_is_self
        /\ prep' = IdlePrep
        /\ UNCHANGED <<sideVars, state_>>
     \/ /\ leader_is_self
        /\ prep' = [prep EXCEPT !.pc = "caughtup"]
        /\ UNCHANGED <<sideVars, state_>>
     \/ /\ leader_is_self
        /\ prep' = IdlePrep
        /\ state_' = "kCrashed"
  /\ UNCHANGED <<sideVars, leader_ready_term, current_term, leader_is_self, gate_readers,
                 gate_writer, gate_wwait, elect_cb, dirVars, th>>

\* lines 888-896, 941: read the term again; bail if it moved; else start
\* acquiring leader_lock_ for writing
\* a comparison that never sees the term move
TermChanged_Never(before, now) == FALSE
\* line 889: term_before_wait != term
TermChanged(before, now) == before # now

PrepTerm ==
  /\ Alive /\ prep.pc = "caughtup"
  /\ IF TermChanged(prep.term_before_wait, current_term)
       THEN prep' = IdlePrep /\ UNCHANGED <<sideVars, gate_wwait>>
       ELSE /\ prep' = [prep EXCEPT !.pc = "lock", !.term = current_term]
            /\ gate_wwait' = TRUE
  /\ UNCHANGED <<sideVars, state_, leader_ready_term, current_term, leader_is_self,
                 gate_readers, gate_writer, elect_cb, dirVars, th>>

\* a write acquisition that does not wait for the readers
GateWriteGranted_IgnoresReaders == ~gate_writer
\* RWMutex::lock as used at line 941: granted once no reader holds the gate
GateWriteGranted == gate_readers = {} /\ ~gate_writer

PrepLock ==
  /\ Alive /\ prep.pc = "lock"
  /\ GateWriteGranted
  /\ gate_writer' = TRUE
  /\ gate_wwait' = FALSE
  /\ prep' = [prep EXCEPT !.pc = "load"]
  /\ UNCHANGED <<sideVars, state_, leader_ready_term, current_term, leader_is_self,
                 gate_readers, elect_cb, dirVars, th>>

\* a loader that puts deleted tables in the by-name map as well
LoadedNames_WithDeleted ==
  [n \in Names |->
     IF \E i \in TableIds : sys_tables[i] # NoRec /\ sys_tables[i].name = n
       THEN CHOOSE i \in TableIds :
              /\ sys_tables[i] # NoRec /\ sys_tables[i].name = n
              /\ \A j \in TableIds :
                   (sys_tables[j] # NoRec /\ sys_tables[j].name = n) => j <= i
       ELSE NoId]
\* a loader that skips deleted tables altogether
LoadedIds_LiveOnly ==
  {i \in TableIds : sys_tables[i] # NoRec /\ ~TableIsDeleted(sys_tables[i])}

\* TableLoader::VisitTable: the by-id map gets every table of the system table
LoadedIds == {i \in TableIds : sys_tables[i] # NoRec}

\* TableLoader::VisitTable: the by-name map gets the table unless it is deleted
LoadedNames ==
  [n \in Names |->
     IF \E i \in TableIds : sys_tables[i] # NoRec /\ ~TableIsDeleted(sys_tables[i])
                            /\ sys_tables[i].name = n
       THEN CHOOSE i \in TableIds :
              /\ sys_tables[i] # NoRec /\ ~TableIsDeleted(sys_tables[i])
              /\ sys_tables[i].name = n
              /\ \A j \in TableIds :
                   (sys_tables[j] # NoRec /\ ~TableIsDeleted(sys_tables[j])
                    /\ sys_tables[j].name = n) => j <= i
       ELSE NoId]

\* TabletLoader::VisitTablet + TableInfo::AddRemoveTablets({tablet}, {}) in
\* ascending id order: the last tablet loaded for a partition start wins
LoadedTmap(i) ==
  [k \in Keys |->
     LET c == {t \in TabletIds : /\ sys_tablets[t] # NoRec
                                 /\ sys_tablets[t].table_id = i
                                 /\ ~TabletIsDeleted(sys_tablets[t])
                                 /\ sys_tablets[t].pstart = k}
     IN IF c = {} THEN NoId ELSE CHOOSE t \in c : \A u \in c : u <= t]

LoadedSvc(i) ==
  [v \in NOT_YET_REPORTED..MaxVersion |->
     IF v = NOT_YET_REPORTED
       THEN Cardinality({k \in Keys : LoadedTmap(i)[k] # NoId})
       ELSE 0]

LoadedTable(i) ==
  IF sys_tables[i] = NoRec THEN NoObj
  ELSE [st |-> sys_tables[i], dirty |-> NoRec, wl |-> NoOwner, rd |-> {},
        tmap |-> LoadedTmap(i), svc |-> LoadedSvc(i)]

LoadedTablet(t) ==
  IF sys_tablets[t] = NoRec THEN NoObj
  ELSE [st |-> sys_tablets[t], dirty |-> NoRec, wl |-> NoOwner,
        rsv |-> NOT_YET_REPORTED]

\* CatalogManager::VisitTablesAndTabletsUnlocked under leader_lock_ held for
\* writing: abort the tasks, clear the maps, load tables, then tablets
PrepLoad ==
  /\ Alive /\ prep.pc = "load"
  /\ tasks' = {}
  /\ table_ids_map' = LoadedIds
  /\ table_names_map' = LoadedNames
  /\ tablet_map' = {t \in TabletIds : sys_tablets[t] # NoRec}
  /\ tbl' = [i \in TableIds |-> LoadedTable(i)]
  /\ tab' = [t \in TabletIds |-> LoadedTablet(t)]
  /\ prep' = [prep EXCEPT !.pc = "security", !.ok = {"load"}]
  /\ UNCHANGED <<sideVars, state_, leader_ready_term, current_term, leader_is_self,
                 gate_readers, gate_writer, gate_wwait, elect_cb, sysVars,
                 reserved_table_names, th>>

\* lines 953-972: InitCertAuthority and InitTokenSigner under the gate; a
\* failure explained by shutdown or a term change ends the task (the gate is
\* released), then lines 974-975 are not reached
PrepSecurity ==
  /\ Alive /\ prep.pc = "security"
  /\ \/ /\ prep' = [prep EXCEPT !.pc = "ready", !.ok = {"load", "ca", "tsk"}]
     \/ /\ state_ = "kClosing" \/ current_term # prep.term
        /\ prep' = IdlePrep
  /\ gate_writer' = FALSE
  /\ UNCHANGED <<sideVars, state_, leader_ready_term, current_term, leader_is_self,
                 gate_readers, gate_wwait, elect_cb, dirVars, th>>

\* lines 974-975: leader_ready_term_ = term
PrepReady ==
  /\ Alive /\ prep.pc = "ready"
  /\ leader_ready_term' = prep.term
  /\ prep' = IdlePrep
  /\ UNCHANGED <<sideVars, state_, current_term, leader_is_self, gate_readers, gate_writer,
                 gate_wwait, elect_cb, dirVars, th>>

(***************************************************************************)
(* CatalogManager::ScopedLeaderSharedLock                                  *)
(***************************************************************************)
\* leader_shared_lock_(catalog->leader_lock_, std::try_to_lock): the gate
\* prefers writers, so a waiting writer refuses new readers
TryLockShared == ~gate_writer /\ ~gate_wwait

\* the constructor's checks, lines 4313-4340
CatalogStatusOk == state_ = "kRunning"
\* a leadership check that skips the comparison of terms
LeaderStatusOk_NoReadyTerm(owns) ==
  /\ leader_is_self
  /\ owns
LeaderStatusOk(owns) ==
  /\ leader_is_self
  /\ leader_ready_term = current_term
  /\ owns
FirstFailedStatusOk(owns) == CatalogStatusOk /\ LeaderStatusOk(owns)

\* A handler of the master service: constructs the ScopedLeaderSharedLock and
\* calls CheckIsInitializedAndIsLeaderOrRespond; op and first are the
\* operation and the position of its body.
HandlerBegin(h, op, first) ==
  /\ Alive /\ th[h].pc = "idle"
  /\ LET owns == TryLockShared IN
       /\ gate_readers' = IF owns THEN gate_readers \cup {h} ELSE gate_readers
       /\ IF FirstFailedStatusOk(owns)
            THEN th' = [th EXCEPT ![h] = [IdleTh EXCEPT !.pc = first, !.op = op,
                                                         !.owns = owns]]
            ELSE th' = [th EXCEPT ![h] = [IdleTh EXCEPT !.pc = "done", !.op = op,
                                                         !.owns = owns,
                                                         !.resp = "NOT_THE_LEADER",
                                                         !.st = "refused"]]
  /\ UNCHANGED <<sideVars, leaderVars, dirVars>>


(***************************************************************************)
(* Helpers shared by the handlers.                                         *)
(***************************************************************************)
RECURSIVE SortedSeq(_)
SortedSeq(S) ==
  IF S = {} THEN << >>
  ELSE LET m == CHOOSE x \in S : \A y \in S : x <= y
       IN <<m>> \o SortedSeq(S \ {m})

\* CatalogManager::GenerateId: an id no table / tablet uses
FreeTableIds == {i \in TableIds : tbl[i] = NoObj /\ sys_tables[i] = NoRec}
FreeTabletIds == {t \in TabletIds : tab[t] = NoObj /\ sys_tablets[t] = NoRec}

\* the handler's body ends: what is left is the response and what the scoped
\* cleanups need
Finish(r) ==
  [IdleTh EXCEPT !.pc = "done", !.op = r.op, !.owns = r.owns, !.name = r.name,
                 !.reserved = r.reserved, !.resp = r.resp, !.st = r.st,
                 !.ws = r.ws, !.tid = r.tid, !.done = r.done, !.nr = r.nr]

\* the handler ends with response code c and status s
Respond(h, c, s) == Finish([th[h] EXCEPT !.resp = c, !.st = s])

\* SysCatalogTable::Write answers with one of these statuses
WriteStatuses == {"OK", "IllegalState", "Aborted", "Other"}

\* a mapping that recognises IllegalState only
NoLongerLeaderCode_IllegalStateOnly(s) ==
  IF s = "IllegalState" THEN "NOT_THE_LEADER" ELSE "none"
\* CheckIfNoLongerLeaderAndSetupError(s, resp)
NoLongerLeaderCode(s) ==
  IF s = "IllegalState" \/ s = "Aborted" THEN "NOT_THE_LEADER" ELSE "none"

NumLiveTServers == Cardinality(TServers)

\* COW locks: a WRITE lock is exclusive among writers; commit waits until
\* no reader is left, whoever the readers are
CanWriteLock(o) == o.wl = NoOwner
CanCommit(o, h) == o.rd = {}

(***************************************************************************)
(* Metadata locks (CowObject / CowLock).                                   *)
(***************************************************************************)
\* StartMutation: the dirty copy starts as a copy of the committed record
WLock(o, h) == [o EXCEPT !.wl = h, !.dirty = o.st]
\* CommitMutation: the dirty copy becomes the committed record
Commit(o) == [o EXCEPT !.st = o.dirty, !.dirty = NoRec, !.wl = NoOwner]
\* AbortMutation: the dirty copy is dropped
Abort(o) == [o EXCEPT !.dirty = NoRec, !.wl = NoOwner]

\* a reservation test that never finds the name taken
NameReserved_Never(name) == FALSE
\* InsertIfNotPresent(&reserved_table_names_, name) fails: the name is taken
NameReserved(name) == name \in reserved_table_names

\* a cleanup that leaves the reservation in place
Unreserve_Keeps(names, name) == names
\* the scoped cleanup: reserved_table_names_.erase(name)
Unreserve(names, name) == names \ {name}

\* an erase that leaves the by-name entry in place
EraseName_Keeps(names, name) == names
\* table_names_map_.erase(name)
EraseName(names, name) == [names EXCEPT ![name] = NoId]

\* the reconciler takes the highest id first
NextTabletToLock_BgDescending(h, todo) ==
  IF h = BgThread THEN CHOOSE x \in todo : \A y \in todo : x >= y
  ELSE CHOOSE x \in todo : \A y \in todo : x <= y

\* TabletMetadataGroupLock::Lock: the locks of a group are acquired one at
\* a time in tablet id order (usage rules, lines 34-40)
NextTabletToLock(h, todo) == CHOOSE x \in todo : \A y \in todo : x <= y

\* TableInfo::GetAllTablets
GetAllTablets(i) == {tbl[i].tmap[k] : k \in Keys} \ {NoId}

(***************************************************************************)
(* CatalogManager::FindAndLockTable, first half: the lookup under lock_    *)
(***************************************************************************)
FindTable(ident) ==
  IF ident.id # NoId
    THEN LET t == IF ident.id \in table_ids_map THEN ident.id ELSE NoId
         IN IF ident.name # NoName /\ t # table_names_map[ident.name]
              THEN NoId ELSE t
    ELSE table_names_map[ident.name]

\* an RPC task for a tablet server (RetryingTSRpcTask and its subclasses)
ReplicaTask(type, i, t, ts, cas) ==
  [type |-> type, table |-> i, tablet |-> t, ts |-> ts, cas |-> cas]

\* SendDeleteTabletRequest: one AsyncDeleteReplica per peer of the committed
\* consensus state, none when the tablet has no consensus state
DeleteTabletTasks(i, t, rec) ==
  IF rec.cstate = NoCState THEN {}
  ELSE {ReplicaTask("DeleteReplica", i, t, p, kInvalidOpIdIndex) :
          p \in rec.cstate.peers}

(***************************************************************************)
(* CatalogManager::IsCreateTableDone                                       *)
(***************************************************************************)
\* a creation that is never in progress
IsCreateInProgress_Never(i) == FALSE

\* TableInfo::IsCreateInProgress: under the table's lock_, some tablet of the
\* tablet map is not running in its committed record
IsCreateInProgress(i) ==
  \E t \in GetAllTablets(i) : ~TabletIsRunning(tab[t].st)

\* lines 1459-1477: CheckOnline, FindAndLockTable(READ) (a READ lock reads
\* the committed record, also next to a writer), the deleted / not running
\* checks, done
IsCreateTableDoneBody(h, reqs) ==
  /\ Alive /\ th[h].pc = "icd"
  /\ \E ident \in reqs :
       LET me == [th[h] EXCEPT !.name = ident.name, !.id = ident.id]
           i == FindTable(ident)
       IN th' = [th EXCEPT ![h] =
            IF ~CatalogStatusOk
              THEN Respond(h, "none", "ServiceUnavailable")
            ELSE IF ident.id = NoId /\ ident.name = NoName
              THEN Finish([me EXCEPT !.st = "InvalidArgument"])
            ELSE IF i = NoId \/ (ident.name # NoName /\ ident.name # tbl[i].st.name)
              THEN Finish([me EXCEPT !.st = "NotFound", !.resp = "TABLE_NOT_FOUND"])
            ELSE IF TableIsDeleted(tbl[i].st)
              THEN Finish([me EXCEPT !.st = "NotFound", !.resp = "TABLE_NOT_FOUND",
                                     !.tid = i])
            ELSE IF ~TableIsRunning(tbl[i].st)
              THEN Finish([me EXCEPT !.st = "ServiceUnavailable",
                                     !.resp = "TABLE_NOT_FOUND", !.tid = i])
            ELSE Finish([me EXCEPT !.st = "OK", !.tid = i,
                                   !.done = ~IsCreateInProgress(i)])]
  /\ UNCHANGED <<sideVars, leaderVars, gate_readers, dirVars>>

IsCreateTableDone(h, reqs) ==
  \/ HandlerBegin(h, "IsCreateTableDone", "icd")
  \/ IsCreateTableDoneBody(h, reqs)

(***************************************************************************)
(* CatalogManager::DeleteTable                                             *)
(***************************************************************************)
\* lines 1556-1570 and 1514-1536: CheckOnline and the lookup
DeleteTableFind(h, reqs) ==
  /\ Alive /\ th[h].pc = "dt_find"
  /\ \E ident \in reqs :
       LET me == [th[h] EXCEPT !.name = ident.name, !.id = ident.id] IN
       IF ~CatalogStatusOk
         THEN th' = [th EXCEPT ![h] = Respond(h, "none", "ServiceUnavailable")]
       ELSE IF ident.id = NoId /\ ident.name = NoName
         THEN th' = [th EXCEPT ![h] =
                Finish([me EXCEPT !.st = "InvalidArgument"])]
       ELSE IF FindTable(ident) = NoId
         THEN th' = [th EXCEPT ![h] =
                Finish([me EXCEPT !.st = "NotFound",
                           !.resp = "TABLE_NOT_FOUND"])]
       ELSE th' = [th EXCEPT ![h] =
                [me EXCEPT !.pc = "dt_lock", !.tbl = FindTable(ident)]]
  /\ UNCHANGED <<sideVars, leaderVars, gate_readers, dirVars>>

\* lines 1539-1545, 1571-1588: the table's WRITE lock, the renamed / deleted
\* checks, REMOVED in the dirty copy, and the tablets to lock
DeleteTableLock(h) ==
  /\ Alive /\ th[h].pc = "dt_lock"
  /\ LET i == th[h].tbl IN
       /\ CanWriteLock(tbl[i])
       /\ IF \/ th[h].name # NoName /\ th[h].name # tbl[i].st.name
             \/ TableIsDeleted(tbl[i].st)
            THEN /\ th' = [th EXCEPT ![h] = Respond(h, "TABLE_NOT_FOUND", "NotFound")]
                 /\ UNCHANGED <<sideVars, tbl>>
            ELSE /\ tbl' = [tbl EXCEPT ![i] =
                      [WLock(tbl[i], h) EXCEPT !.dirty.state = "REMOVED"]]
                 /\ th' = [th EXCEPT ![h] =
                      [th[h] EXCEPT !.pc = "dt_tablets", !.todo = GetAllTablets(i)]]
  /\ UNCHANGED <<sideVars, leaderVars, gate_readers, sysVars, mapVars,
                 reserved_table_names, tab, tasks>>

\* TabletMetadataGroupLock::Lock(WRITE), line 1588: one tablet at a time, in
\* id order, each acquisition blocking
DeleteTableLockTablet(h) ==
  /\ Alive /\ th[h].pc = "dt_tablets" /\ th[h].todo # {}
  /\ LET t == NextTabletToLock(h, th[h].todo) IN
       /\ CanWriteLock(tab[t])
       /\ tab' = [tab EXCEPT ![t] = WLock(tab[t], h)]
       /\ th' = [th EXCEPT ![h] =
            [th[h] EXCEPT !.todo = th[h].todo \ {t}, !.held = th[h].held \cup {t}]]
  /\ UNCHANGED <<sideVars, leaderVars, gate_readers, sysVars, mapVars,
                 reserved_table_names, tbl, tasks>>

\* lines 1590-1621: DELETED in every locked tablet's dirty copy, the write to
\* the system tablet, then the by-name erase and the tablets' commit
DeleteTableWrite(h) ==
  /\ Alive /\ th[h].pc = "dt_tablets" /\ th[h].todo = {}
  /\ LET i == th[h].tbl
         held == th[h].held
         name == tbl[i].dirty.name
         deleted(t) == [tab[t].dirty EXCEPT !.state = "DELETED"]
     IN \E s \in WriteStatuses :
          IF s # "OK"
            THEN /\ tbl' = [tbl EXCEPT ![i] = Abort(tbl[i])]
                 /\ tab' = [t \in TabletIds |->
                              IF t \in held THEN Abort(tab[t]) ELSE tab[t]]
                 /\ th' = [th EXCEPT ![h] =
                      Finish([th[h] EXCEPT !.st = s, !.ws = s, !.held = {},
                                    !.resp = NoLongerLeaderCode(s)])]
                 /\ UNCHANGED <<sideVars, state_, sysVars, table_names_map>>
            ELSE /\ sys_tables' = [sys_tables EXCEPT ![i] = tbl[i].dirty]
                 /\ sys_tablets' = [t \in TabletIds |->
                              IF t \in held THEN deleted(t) ELSE sys_tablets[t]]
                 /\ IF table_names_map[name] = NoId
                      THEN \* PANIC_RPC
                           /\ state_' = "kCrashed"
                           /\ UNCHANGED <<sideVars, table_names_map, tab, th, tbl>>
                      ELSE /\ table_names_map' = EraseName(table_names_map, name)
                           /\ tab' = [t \in TabletIds |->
                                IF t \in held
                                  THEN Commit([tab[t] EXCEPT !.dirty = deleted(t)])
                                  ELSE tab[t]]
                           /\ th' = [th EXCEPT ![h] =
                                [th[h] EXCEPT !.pc = "dt_commit", !.ws = s]]
                           /\ UNCHANGED <<sideVars, state_, tbl>>
  /\ UNCHANGED <<sideVars, leader_ready_term, current_term, leader_is_self, elect_cb, prep,
                 gate_writer, gate_wwait, gate_readers, table_ids_map, tablet_map,
                 reserved_table_names, tasks>>

\* lines 1623-1635: the table's commit, AbortTasks, SendDeleteTableRequest
DeleteTableCommit(h) ==
  /\ Alive /\ th[h].pc = "dt_commit"
  /\ LET i == th[h].tbl IN
       /\ CanCommit(tbl[i], h)
       /\ tbl' = [tbl EXCEPT ![i] = Commit(tbl[i])]
       /\ tasks' = {k \in tasks : k.table # i} \cup
            UNION {DeleteTabletTasks(i, t, tab[t].st) : t \in GetAllTablets(i)}
       /\ th' = [th EXCEPT ![h] =
            Finish([th[h] EXCEPT !.st = "OK", !.held = {}])]
  /\ UNCHANGED <<sideVars, leaderVars, gate_readers, sysVars, mapVars,
                 reserved_table_names, tab>>

\* ValidateIdentifier: the empty string is not an identifier
ValidateIdentifier(id) == id # ""

(***************************************************************************)
(* CatalogManager::CreateTable                                             *)
(***************************************************************************)
\* lines 1215-1343: the request's validation; "ok" or the rejection's code
CreateTableValidation(req) ==
  IF req.valid = "bad_schema" THEN "INVALID_SCHEMA"
  ELSE IF ~ValidateIdentifier(req.name) THEN "INVALID_SCHEMA"
  ELSE IF req.valid = "bad_bounds" THEN "UNKNOWN_ERROR"
  ELSE IF req.valid = "bad_decode" THEN "NO_CODE"
  ELSE IF req.nr % 2 = 0 /\ ~FLAGS_allow_unsafe_replication_factor
    THEN "EVEN_REPLICATION_FACTOR"
  ELSE IF req.nr > FLAGS_max_num_replicas THEN "REPLICATION_FACTOR_TOO_HIGH"
  ELSE IF req.nr <= 0 THEN "ILLEGAL_REPLICATION_FACTOR"
  ELSE IF /\ req.nr > 1
          /\ FLAGS_max_create_tablets_per_ts * NumLiveTServers > 0
          /\ Len(req.parts) > FLAGS_max_create_tablets_per_ts * NumLiveTServers
    THEN "TOO_MANY_TABLETS"
  ELSE IF /\ FLAGS_catalog_manager_check_ts_count_for_create_table
          /\ req.nr > NumLiveTServers
    THEN "REPLICATION_FACTOR_TOO_HIGH"
  ELSE "ok"

\* lines 1202-1369: CheckOnline, validation, then under lock_ the name check
\* and the reservation
CreateTableValidate(h, reqs) ==
  /\ Alive /\ th[h].pc = "ct_validate"
  /\ \E req \in reqs :
       LET v == CreateTableValidation(req)
           me == [th[h] EXCEPT !.name = req.name, !.nr = req.nr]
       IN
       IF ~CatalogStatusOk
         THEN /\ th' = [th EXCEPT ![h] = Respond(h, "none", "ServiceUnavailable")]
              /\ UNCHANGED <<sideVars, reserved_table_names>>
       ELSE IF v # "ok"
         THEN /\ th' = [th EXCEPT ![h] =
                   Finish([me EXCEPT !.st = "InvalidArgument",
                              !.resp = IF v = "NO_CODE" THEN "none" ELSE v])]
              /\ UNCHANGED <<sideVars, reserved_table_names>>
       ELSE IF table_names_map[req.name] # NoId
         THEN /\ th' = [th EXCEPT ![h] =
                   Finish([me EXCEPT !.st = "AlreadyPresent",
                              !.resp = "TABLE_ALREADY_PRESENT"])]
              /\ UNCHANGED <<sideVars, reserved_table_names>>
       ELSE IF NameReserved(req.name)
         THEN /\ th' = [th EXCEPT ![h] =
                   Finish([me EXCEPT !.st = "ServiceUnavailable",
                              !.resp = "TABLE_ALREADY_PRESENT"])]
              /\ UNCHANGED <<sideVars, reserved_table_names>>
       ELSE /\ reserved_table_names' = reserved_table_names \cup {req.name}
            /\ th' = [th EXCEPT ![h] =
                   [me EXCEPT !.pc = "ct_write", !.reserved = req.name,
                              !.nr = req.nr, !.parts = req.parts]]
  /\ UNCHANGED <<sideVars, leaderVars, gate_readers, sysVars, mapVars, tbl, tab, tasks>>

\* CreateTableInfo + the RUNNING state set at line 1402
CreateTableInfo(name, nr) ==
  TableRec("RUNNING", name, 0, nr, {"key"}, NoSchema)
\* CreateTabletInfo
CreateTabletInfo(table_id, part) ==
  TabletRec("PREPARING", table_id, part[1], part[2], NoCState)

\* TableInfo::AddRemoveTablets(tablets, {}) on the new table
NewTmap(parts, ids) ==
  [k \in Keys |->
     IF \E j \in 1..Len(parts) : parts[j][1] = k
       THEN ids[CHOOSE j \in 1..Len(parts) : parts[j][1] = k]
       ELSE NoId]

\* lines 1377-1436: create the infos (WRITE-locked, private), write them to
\* the system tablet, and on success commit them and attach the tablets
CreateTableWrite(h) ==
  /\ Alive /\ th[h].pc = "ct_write"
  /\ FreeTableIds # {}
  /\ Cardinality(FreeTabletIds) >= Len(th[h].parts)
  /\ LET id == CHOOSE i \in FreeTableIds : \A j \in FreeTableIds : i <= j
         ids == SubSeq(SortedSeq(FreeTabletIds), 1, Len(th[h].parts))
         parts == th[h].parts
         trec == CreateTableInfo(th[h].name, th[h].nr)
     IN \E s \in WriteStatuses :
          IF s # "OK"
            THEN /\ th' = [th EXCEPT ![h] =
                      Finish([th[h] EXCEPT !.st = s, !.ws = s,
                                    !.resp = NoLongerLeaderCode(s)])]
                 /\ UNCHANGED <<sideVars, sysVars, tbl, tab>>
            ELSE /\ sys_tables' = [sys_tables EXCEPT ![id] = trec]
                 /\ sys_tablets' = [t \in TabletIds |->
                      IF \E j \in 1..Len(ids) : ids[j] = t
                        THEN CreateTabletInfo(id,
                               parts[CHOOSE j \in 1..Len(ids) : ids[j] = t])
                        ELSE sys_tablets[t]]
                 /\ tbl' = [tbl EXCEPT ![id] =
                      [st |-> trec, dirty |-> NoRec, wl |-> NoOwner, rd |-> {},
                       tmap |-> NewTmap(parts, ids),
                       svc |-> [EmptySvc EXCEPT ![NOT_YET_REPORTED] = Len(ids)]]]
                 /\ tab' = [t \in TabletIds |->
                      IF \E j \in 1..Len(ids) : ids[j] = t
                        THEN [st |-> sys_tablets'[t], dirty |-> NoRec,
                              wl |-> NoOwner, rsv |-> NOT_YET_REPORTED]
                        ELSE tab[t]]
                 /\ th' = [th EXCEPT ![h] =
                      [th[h] EXCEPT !.pc = "ct_publish", !.ws = s, !.tbl = id,
                                    !.adds = {ids[j] : j \in 1..Len(ids)}]]
  /\ UNCHANGED <<sideVars, leaderVars, gate_readers, mapVars, reserved_table_names, tasks>>

\* lines 1438-1453: publish the table and tablets in the maps under lock_
CreateTablePublish(h) ==
  /\ Alive /\ th[h].pc = "ct_publish"
  /\ table_ids_map' = table_ids_map \cup {th[h].tbl}
  /\ table_names_map' = [table_names_map EXCEPT ![th[h].name] = th[h].tbl]
  /\ tablet_map' = tablet_map \cup th[h].adds
  /\ th' = [th EXCEPT ![h] =
       Finish([th[h] EXCEPT !.st = "OK", !.tid = th[h].tbl])]
  /\ UNCHANGED <<sideVars, leaderVars, gate_readers, sysVars, reserved_table_names,
                 tbl, tab, tasks>>

\* The handler returns: scoped cleanups drop the name reservation (lines
\* 1372-1375, 2002-2007) and the ScopedLeaderSharedLock releases the gate
Return(h) ==
  /\ th[h].pc = "done"
  /\ reserved_table_names' = Unreserve(reserved_table_names, th[h].reserved)
  /\ gate_readers' = gate_readers \ {h}
  /\ th' = [th EXCEPT ![h] = IdleTh]
  /\ UNCHANGED <<sideVars, leaderVars, sysVars, mapVars, tbl, tab, tasks>>


(***************************************************************************)
(* CatalogManager::AlterTable                                              *)
(***************************************************************************)
KeyColumns == {"key"}

\* ApplyAlterSchemaSteps: the new schema, or NoSchema when a step is rejected
RECURSIVE ApplyAlterSchemaSteps(_, _)
ApplyAlterSchemaSteps(schema, steps) ==
  IF steps = << >> THEN schema
  ELSE LET step == Head(steps) IN
       IF step.type = "ADD_COLUMN"
         THEN IF step.col \in schema \/ ~step.ok THEN NoSchema
              ELSE ApplyAlterSchemaSteps(schema \cup {step.col}, Tail(steps))
       ELSE IF step.type = "DROP_COLUMN"
         THEN IF step.col \in KeyColumns \/ step.col \notin schema THEN NoSchema
              ELSE ApplyAlterSchemaSteps(schema \ {step.col}, Tail(steps))
       ELSE NoSchema

\* std::map::upper_bound / lower_bound over partitions keyed by their start
PartsAfter(P, k) == {p \in P : p[1] > k}
PartsNotAfter(P, k) == {p \in P : p[1] <= k}
PartsFrom(P, k) == {p \in P : p[1] >= k}
FirstPart(P) == CHOOSE p \in P : \A q \in P : p[1] <= q[1]
LastPart(P) == CHOOSE p \in P : \A q \in P : q[1] <= p[1]

\* an overlap check that accepts every range
RangeConflicts_Never(P, lo, hi) == FALSE
\* lines 1789-1808 and 1811-1829: the new range [lo, hi) overlaps a range of P
RangeConflicts(P, lo, hi) ==
  \/ /\ PartsAfter(P, lo) # {}
     /\ hi = 0 \/ FirstPart(PartsAfter(P, lo))[1] < hi
  \/ /\ PartsNotAfter(P, lo) # {}
     /\ \/ LastPart(PartsNotAfter(P, lo))[2] = 0
        \/ LastPart(PartsNotAfter(P, lo))[2] > lo

\* a failed step: new holds the ranges whose tablets were created so far
PartFailed(new) == [ok |-> FALSE, adds |-> new, drops |-> {}]

\* a cleanup that leaves the tablets created so far behind
AbortMutations_Keeps(tablets, ids) == tablets
\* the abort_mutations cleanup, lines 1734-1738: the tablets created by the
\* steps before the failing one are aborted and dropped
AbortMutations(tablets, ids) ==
  [t \in TabletIds |-> IF t \in ids THEN NoObj ELSE tablets[t]]

\* ApplyAlterPartitioningSteps: existing is the table's tablet map as
\* <<start, end, tablet>>, new the ranges added so far as <<start, end>>
RECURSIVE ApplyAlterPartitioningSteps(_, _, _, _)
ApplyAlterPartitioningSteps(steps, existing, new, drops) ==
  IF steps = << >> THEN [ok |-> TRUE, adds |-> new, drops |-> drops]
  ELSE LET step == Head(steps)
           lo == step.lo
           hi == step.hi
       IN
       IF step.type = "ADD_RANGE_PARTITION"
         THEN IF RangeConflicts(existing, lo, hi) \/ RangeConflicts(new, lo, hi)
                THEN PartFailed(new)
                ELSE ApplyAlterPartitioningSteps(Tail(steps), existing,
                                                 new \cup {<<lo, hi>>}, drops)
       ELSE IF step.type = "DROP_RANGE_PARTITION"
         THEN LET ex == PartsFrom(existing, lo)
                  nw == PartsFrom(new, lo)
                  found_existing == /\ ex # {}
                                    /\ FirstPart(ex)[1] = lo
                                    /\ FirstPart(ex)[2] = hi
                  found_new == /\ nw # {}
                               /\ FirstPart(nw)[1] = lo
                               /\ FirstPart(nw)[2] = hi
              IN IF found_existing
                   THEN ApplyAlterPartitioningSteps(Tail(steps),
                          existing \ {FirstPart(ex)}, new,
                          drops \cup {FirstPart(ex)[3]})
                 ELSE IF found_new
                   THEN ApplyAlterPartitioningSteps(Tail(steps), existing,
                          new \ {FirstPart(nw)}, drops)
                 ELSE PartFailed(new)
       ELSE PartFailed(new)

\* TableInfo::tablet_map() with each tablet's committed partition
ExistingTablets(i) ==
  {<<tab[t].st.pstart, tab[t].st.pend, t>> : t \in GetAllTablets(i)}

AlterHasUnknownStep(req) ==
  \/ \E j \in 1..Len(req.ssteps) : req.ssteps[j].type = "UNKNOWN"
  \/ \E j \in 1..Len(req.psteps) : req.psteps[j].type = "UNKNOWN"

\* lines 1895-1932 and 1514-1536: CheckOnline, the grouping of the steps and
\* the lookup; the request stays with the thread for the next step
AlterTableFind(h, reqs) ==
  /\ Alive /\ th[h].pc = "at_find"
  /\ \E req \in reqs :
       LET me == [th[h] EXCEPT !.name = req.name, !.id = req.id] IN
       IF ~CatalogStatusOk
         THEN th' = [th EXCEPT ![h] = Respond(h, "none", "ServiceUnavailable")]
       ELSE IF AlterHasUnknownStep(req)
         THEN th' = [th EXCEPT ![h] =
                Finish([me EXCEPT !.st = "InvalidArgument"])]
       ELSE IF req.id = NoId /\ req.name = NoName
         THEN th' = [th EXCEPT ![h] =
                Finish([me EXCEPT !.st = "InvalidArgument"])]
       ELSE IF FindTable(req) = NoId
         THEN th' = [th EXCEPT ![h] =
                Finish([me EXCEPT !.st = "NotFound",
                           !.resp = "TABLE_NOT_FOUND"])]
       ELSE th' = [th EXCEPT ![h] =
                [me EXCEPT !.pc = "at_lock", !.tbl = FindTable(req),
                           !.parts = <<req>>]]
  /\ UNCHANGED <<sideVars, leaderVars, gate_readers, dirVars>>

\* the table's dirty copy when only new tablets make the table ALTERING
AlterDirty_AlteringForAddsOnly(rec, req, new_schema, num_tablets, adds, drops) ==
  LET has_schema_changes == req.ssteps # << >>
      has_metadata_changes == has_schema_changes \/ req.has_new_table_name
      for_existing == has_metadata_changes /\ num_tablets > Cardinality(drops)
      r1 == IF req.has_new_table_name
              THEN [rec EXCEPT !.name = req.new_table_name] ELSE rec
      r2 == IF for_existing /\ r1.fas = NoSchema
              THEN [r1 EXCEPT !.fas = r1.schema] ELSE r1
      r3 == IF has_schema_changes THEN [r2 EXCEPT !.schema = new_schema] ELSE r2
      r4 == IF has_metadata_changes
              THEN [r3 EXCEPT !.version = r3.version + 1] ELSE r3
  IN IF adds # {} THEN [r4 EXCEPT !.state = "ALTERING"] ELSE r4

\* step 6, lines 2039-2058: the table's dirty copy
AlterDirty(rec, req, new_schema, num_tablets, adds, drops) ==
  LET has_schema_changes == req.ssteps # << >>
      has_metadata_changes == has_schema_changes \/ req.has_new_table_name
      for_existing == has_metadata_changes /\ num_tablets > Cardinality(drops)
      r1 == IF req.has_new_table_name
              THEN [rec EXCEPT !.name = req.new_table_name] ELSE rec
      r2 == IF for_existing /\ r1.fas = NoSchema
              THEN [r1 EXCEPT !.fas = r1.schema] ELSE r1
      r3 == IF has_schema_changes THEN [r2 EXCEPT !.schema = new_schema] ELSE r2
      r4 == IF has_metadata_changes
              THEN [r3 EXCEPT !.version = r3.version + 1] ELSE r3
  IN IF adds # {} \/ for_existing THEN [r4 EXCEPT !.state = "ALTERING"] ELSE r4

\* lines 1539-1545 and 1933-2058: the table's WRITE lock, the renamed /
\* deleted checks, the schema steps, the new name's reservation, the
\* partitioning steps, and the dirty copies
AlterTableLock(h) ==
  /\ Alive /\ th[h].pc = "at_lock"
  /\ LET i == th[h].tbl
         req == th[h].parts[1]
         rec == tbl[i].st
         me == [th[h] EXCEPT !.parts = << >>, !.tid = i]
         new_schema == IF req.ssteps = << >> THEN rec.schema
                       ELSE ApplyAlterSchemaSteps(rec.schema, req.ssteps)
         ps == IF req.psteps = << >> THEN [ok |-> TRUE, adds |-> {}, drops |-> {}]
               ELSE ApplyAlterPartitioningSteps(req.psteps, ExistingTablets(i), {}, {})
         starts == SortedSeq({p[1] : p \in ps.adds})
         ids == SubSeq(SortedSeq(FreeTabletIds), 1, Len(starts))
         partOf(t) == CHOOSE p \in ps.adds :
                        \E j \in 1..Len(starts) : ids[j] = t /\ starts[j] = p[1]
         has_metadata_changes == req.ssteps # << >> \/ req.has_new_table_name
         created == [t \in TabletIds |->
                       IF \E j \in 1..Len(ids) : ids[j] = t
                         THEN [st |-> NoRec, dirty |-> CreateTabletInfo(i, partOf(t)),
                               wl |-> h, rsv |-> NOT_YET_REPORTED]
                         ELSE tab[t]]
     IN
       /\ CanWriteLock(tbl[i])
       /\ IF \/ th[h].name # NoName /\ th[h].name # rec.name
             \/ TableIsDeleted(rec)
            THEN /\ th' = [th EXCEPT ![h] =
                      Finish([th[h] EXCEPT !.st = "NotFound", !.parts = << >>,
                                    !.resp = "TABLE_NOT_FOUND"])]
                 /\ UNCHANGED <<sideVars, tbl, tab, reserved_table_names>>
          ELSE IF new_schema = NoSchema
            THEN /\ th' = [th EXCEPT ![h] =
                      Finish([me EXCEPT !.st = "InvalidArgument",
                                 !.resp = "INVALID_SCHEMA"])]
                 /\ UNCHANGED <<sideVars, tbl, tab, reserved_table_names>>
          ELSE IF req.has_new_table_name /\ ~ValidateIdentifier(req.new_table_name)
            THEN /\ th' = [th EXCEPT ![h] =
                      Finish([me EXCEPT !.st = "InvalidArgument",
                                 !.resp = "INVALID_SCHEMA"])]
                 /\ UNCHANGED <<sideVars, tbl, tab, reserved_table_names>>
          ELSE IF req.has_new_table_name /\ table_names_map[req.new_table_name] # NoId
            THEN /\ th' = [th EXCEPT ![h] =
                      Finish([me EXCEPT !.st = "AlreadyPresent",
                                 !.resp = "TABLE_ALREADY_PRESENT"])]
                 /\ UNCHANGED <<sideVars, tbl, tab, reserved_table_names>>
          ELSE IF req.has_new_table_name /\ NameReserved(req.new_table_name)
            THEN /\ th' = [th EXCEPT ![h] =
                      Finish([me EXCEPT !.st = "ServiceUnavailable",
                                 !.resp = "TABLE_ALREADY_PRESENT"])]
                 /\ UNCHANGED <<sideVars, tbl, tab, reserved_table_names>>
          ELSE
            LET mine == IF req.has_new_table_name
                          THEN [me EXCEPT !.reserved = req.new_table_name,
                                          !.newname = req.new_table_name]
                          ELSE me
            IN
            /\ reserved_table_names' =
                 IF req.has_new_table_name
                   THEN reserved_table_names \cup {req.new_table_name}
                   ELSE reserved_table_names
            /\ IF ~ps.ok
                 THEN \* the table's lock goes out of scope with the new name
                      \* in its dirty copy
                      /\ th' = [th EXCEPT ![h] =
                           Finish([mine EXCEPT !.st = "InvalidArgument",
                                        !.resp = "UNKNOWN_ERROR"])]
                      /\ tbl' = [tbl EXCEPT ![i] = Abort(
                           [WLock(tbl[i], h) EXCEPT !.dirty =
                              AlterDirty(rec, req, new_schema, 0, {}, {})])]
                      /\ Cardinality(FreeTabletIds) >= Cardinality(ps.adds)
                      /\ tab' = AbortMutations(created,
                                               {ids[j] : j \in 1..Len(ids)})
               ELSE IF ~has_metadata_changes /\ req.psteps = << >>
                 THEN /\ th' = [th EXCEPT ![h] = Finish([mine EXCEPT !.st = "OK"])]
                      /\ UNCHANGED <<sideVars, tbl, tab>>
               ELSE /\ Cardinality(FreeTabletIds) >= Cardinality(ps.adds)
                    /\ has_metadata_changes => rec.version < MaxVersion
                    /\ tbl' = [tbl EXCEPT ![i] =
                         [WLock(tbl[i], h) EXCEPT !.dirty =
                            AlterDirty(rec, req, new_schema,
                                       Cardinality(GetAllTablets(i)), ps.adds, ps.drops)]]
                    /\ tab' = created
                    /\ th' = [th EXCEPT ![h] =
                         [mine EXCEPT !.pc = "at_drops", !.oldname = rec.name,
                                      !.adds = {ids[j] : j \in 1..Len(ids)},
                                      !.drops = ps.drops, !.todo = ps.drops,
                                      !.commit = ps.adds # {} \/ has_metadata_changes]]
  /\ UNCHANGED <<sideVars, leaderVars, gate_readers, sysVars, mapVars, tasks>>

\* TabletMetadataGroupLock::Lock(WRITE) on tablets_to_drop, line 2074
AlterTableLockTablet(h) ==
  /\ Alive /\ th[h].pc = "at_drops" /\ th[h].todo # {}
  /\ LET t == NextTabletToLock(h, th[h].todo) IN
       /\ CanWriteLock(tab[t])
       /\ tab' = [tab EXCEPT ![t] = WLock(tab[t], h)]
       /\ th' = [th EXCEPT ![h] =
            [th[h] EXCEPT !.todo = th[h].todo \ {t}, !.held = th[h].held \cup {t}]]
  /\ UNCHANGED <<sideVars, leaderVars, gate_readers, sysVars, mapVars,
                 reserved_table_names, tbl, tasks>>

\* TableInfo::AddRemoveTablets(to_add, to_drop): the table's tablet map
TmapAfter(o, to_add, to_drop) ==
  [k \in Keys |->
     IF \E t \in to_add : tab[t].dirty.pstart = k
       THEN CHOOSE t \in to_add : tab[t].dirty.pstart = k
     ELSE IF \E t \in to_drop : tab[t].st.pstart = k THEN NoId
     ELSE o.tmap[k]]

\* the map entries AddRemoveTablets' second loop overwrites
Replaced(o, to_add, to_drop) ==
  {o.tmap[k] : k \in {x \in Keys :
      /\ o.tmap[x] # NoId
      /\ \E t \in to_add : tab[t].dirty.pstart = x
      /\ ~\E t \in to_drop : tab[t].st.pstart = x}}

\* DecrementSchemaVersionCountUnlocked n times on a count c: a decrement of
\* a key that is not in the map leaves the map as it was when the DCHECKs
\* are compiled out
Decrement(c, n) == IF c >= n THEN c - n ELSE 0

\* some decrement of AddRemoveTablets finds no key to decrement
SvcUnderflow(o, to_add, to_drop) ==
  \E v \in NOT_YET_REPORTED..MaxVersion :
     LET d == Cardinality({t \in to_drop : tab[t].rsv = v})
         r == Cardinality({t \in Replaced(o, to_add, to_drop) : tab[t].rsv = v})
     IN o.svc[v] < d \/ Decrement(o.svc[v], d) < r

\* ... and its schema_version_counts_: one decrement per dropped tablet and
\* per replaced entry, one increment per added tablet
SvcAfter(o, to_add, to_drop) ==
  [v \in NOT_YET_REPORTED..MaxVersion |->
     Decrement(Decrement(o.svc[v],
                         Cardinality({t \in to_drop : tab[t].rsv = v})),
               Cardinality({t \in Replaced(o, to_add, to_drop) : tab[t].rsv = v}))
       + Cardinality({t \in to_add : tab[t].rsv = v})]

\* lines 2060-2139: DELETED in the dropped tablets' dirty copies, the write,
\* then the new tablets' commit, the maps under lock_, AddRemoveTablets and
\* the dropped tablets' commit
AlterTableWrite(h) ==
  /\ Alive /\ th[h].pc = "at_drops" /\ th[h].todo = {}
  /\ LET i == th[h].tbl
         adds == th[h].adds
         drops == th[h].drops
         deleted(t) == [tab[t].dirty EXCEPT !.state = "DELETED"]
     IN \E s \in WriteStatuses :
          IF s # "OK"
            THEN /\ tbl' = [tbl EXCEPT ![i] = Abort(tbl[i])]
                 /\ tab' = [t \in TabletIds |->
                              IF t \in adds THEN NoObj
                              ELSE IF t \in drops THEN Abort(tab[t])
                              ELSE tab[t]]
                 /\ th' = [th EXCEPT ![h] =
                      Finish([th[h] EXCEPT !.st = s, !.ws = s, !.held = {},
                                    !.adds = {}, !.drops = {},
                                    !.resp = NoLongerLeaderCode(s)])]
                 /\ UNCHANGED <<sideVars, state_, sysVars, table_names_map, tablet_map>>
            ELSE /\ sys_tables' = IF th[h].commit
                                    THEN [sys_tables EXCEPT ![i] = tbl[i].dirty]
                                    ELSE sys_tables
                 /\ sys_tablets' = [t \in TabletIds |->
                      IF t \in adds THEN tab[t].dirty
                      ELSE IF t \in drops THEN deleted(t)
                      ELSE sys_tablets[t]]
                 /\ \E dchecks \in BOOLEAN :
                    IF \/ th[h].newname # NoName /\ table_names_map[th[h].oldname] = NoId
                       \/ \E t \in drops : tbl[i].tmap[tab[t].st.pstart] = NoId
                       \/ dchecks /\ SvcUnderflow(tbl[i], adds, drops)
                      THEN \* PANIC_RPC at line 2102, CHECK at line 4510,
                           \* DCHECKs at lines 4658-4660
                           /\ state_' = "kCrashed"
                           /\ UNCHANGED <<sideVars, table_names_map, tablet_map, tab, th, tbl>>
                      ELSE /\ table_names_map' =
                                IF th[h].newname # NoName
                                  THEN [EraseName(table_names_map, th[h].oldname)
                                          EXCEPT ![th[h].newname] = i]
                                  ELSE table_names_map
                           /\ tablet_map' = tablet_map \cup adds
                           /\ tbl' = [tbl EXCEPT ![i] =
                                [tbl[i] EXCEPT !.tmap = TmapAfter(tbl[i], adds, drops),
                                               !.svc = SvcAfter(tbl[i], adds, drops)]]
                           /\ tab' = [t \in TabletIds |->
                                IF t \in adds THEN Commit(tab[t])
                                ELSE IF t \in drops
                                  THEN Commit([tab[t] EXCEPT !.dirty = deleted(t)])
                                ELSE tab[t]]
                           /\ th' = [th EXCEPT ![h] =
                                [th[h] EXCEPT !.pc = "at_commit", !.ws = s, !.held = {}]]
                           /\ UNCHANGED <<sideVars, state_>>
  /\ UNCHANGED <<sideVars, leader_ready_term, current_term, leader_is_self, elect_cb, prep,
                 gate_writer, gate_wwait, gate_readers, table_ids_map,
                 reserved_table_names, tasks>>

\* SendAlterTableRequest: one AsyncAlterTable per tablet of the table
AlterTableTasks(i) ==
  {ReplicaTask("AlterTable", i, t, NoTS, kInvalidOpIdIndex) :
     t \in GetAllTablets(i)}

\* lines 2141-2154: the table's commit (or unlock), SendAlterTableRequest,
\* the dropped tablets' DeleteTablet requests, Wake
AlterTableCommit(h) ==
  /\ Alive /\ th[h].pc = "at_commit"
  /\ LET i == th[h].tbl IN
       /\ th[h].commit => CanCommit(tbl[i], h)
       /\ tbl' = [tbl EXCEPT ![i] =
            IF th[h].commit THEN Commit(tbl[i]) ELSE Abort(tbl[i])]
       /\ tasks' = tasks \cup AlterTableTasks(i) \cup
            UNION {DeleteTabletTasks(i, t, tab[t].st) : t \in th[h].drops}
       /\ th' = [th EXCEPT ![h] =
            Finish([th[h] EXCEPT !.st = "OK", !.adds = {}, !.drops = {}])]
  /\ UNCHANGED <<sideVars, leaderVars, gate_readers, sysVars, mapVars,
                 reserved_table_names, tab>>

(***************************************************************************)
(* CatalogManagerBgTasks::Run and CatalogManager::ProcessPendingAssignments*)
(***************************************************************************)
\* ExtractTabletsToProcess: tablets of non-deleted tables that are neither
\* deleted nor running (committed state)
ExtractTabletsToProcess ==
  UNION {{t \in GetAllTablets(i) :
            ~TabletIsDeleted(tab[t].st) /\ ~TabletIsRunning(tab[t].st)} :
         i \in {j \in table_ids_map : ~TableIsDeleted(tbl[j].st)}}

\* lines 485-501: one iteration of the loop begins; it goes on only when the
\* catalog is running and the leader status is OK
BgBegin ==
  /\ Alive /\ th[BgThread].pc = "idle"
  /\ LET owns == TryLockShared IN
       /\ gate_readers' = IF owns THEN gate_readers \cup {BgThread} ELSE gate_readers
       /\ IF FirstFailedStatusOk(owns)
            THEN th' = [th EXCEPT ![BgThread] =
                   IF ExtractTabletsToProcess = {}
                     THEN [IdleTh EXCEPT !.pc = "done", !.op = "Bg", !.owns = owns,
                                         !.st = "OK"]
                     ELSE [IdleTh EXCEPT !.pc = "pa_lock", !.op = "Bg", !.owns = owns,
                                         !.todo = ExtractTabletsToProcess]]
            ELSE th' = [th EXCEPT ![BgThread] =
                   [IdleTh EXCEPT !.pc = "done", !.op = "Bg", !.owns = owns,
                                  !.st = "refused"]]
  /\ UNCHANGED <<sideVars, leaderVars, dirVars>>

\* lines 3883-3885: lock_in.Lock(WRITE), one tablet at a time in id order
BgLockTablet ==
  /\ Alive /\ th[BgThread].pc = "pa_lock" /\ th[BgThread].todo # {}
  /\ LET h == BgThread
         t == NextTabletToLock(h, th[h].todo)
     IN
       /\ CanWriteLock(tab[t])
       /\ tab' = [tab EXCEPT ![t] = WLock(tab[t], h)]
       /\ th' = [th EXCEPT ![h] =
            [th[h] EXCEPT !.todo = th[h].todo \ {t}, !.held = th[h].held \cup {t}]]
  /\ UNCHANGED <<sideVars, leaderVars, gate_readers, sysVars, mapVars,
                 reserved_table_names, tbl, tasks>>

\* a selection that may put two replicas on one server
SelectReplicas_WithRepeats(ts_descs, nreplicas) == [1..nreplicas -> ts_descs]

\* SelectReplicas: nreplicas rounds of SelectReplica, each among the servers
\* of ts_descs not already selected; the peers in the order they are added
SelectReplicas(ts_descs, nreplicas) ==
  {c \in [1..nreplicas -> ts_descs] :
     \A a, b \in 1..nreplicas : a # b => c[a] # c[b]}

\* SelectReplicasForTablet: the consensus state a tablet to create gets
NewCState(peers) ==
  [opid |-> kInvalidOpIdIndex, term |-> kMinimumTerm, leader |-> NoTS,
   peers |-> peers]

\* a reconciler that sends no CreateTablet request
CreateTabletTasks_None(i, t, rec) == {}

\* SendCreateTabletRequest: one AsyncCreateReplica per peer
CreateTabletTasks(i, t, rec) ==
  {ReplicaTask("CreateReplica", i, t, p, kInvalidOpIdIndex) :
     p \in rec.cstate.peers}

\* lines 3887-3984 once the locks are held.  timed_out are the CREATING
\* tablets whose creation timeout has expired; ts_descs are the tablet
\* servers GetAllLiveDescriptors finds live, one of the sets of live;
\* statuses are the outcomes of the write; config gives each tablet to
\* create its peers.
ProcessPendingAssignments(live, statuses) ==
  /\ Alive /\ th[BgThread].pc = "pa_lock" /\ th[BgThread].todo = {}
  /\ LET h == BgThread
         held == th[h].held
         preparing == {t \in held : tab[t].st.state = "PREPARING"}
         creating == {t \in held : tab[t].st.state = "CREATING"}
         release == [t \in TabletIds |-> IF t \in held THEN Abort(tab[t]) ELSE tab[t]]
     IN \E timed_out \in SUBSET creating, ts_descs \in live :
        /\ Cardinality(timed_out) <= Cardinality(FreeTabletIds)
        /\ LET olds == SortedSeq(timed_out)
               news == SubSeq(SortedSeq(FreeTabletIds), 1, Len(olds))
               to_add == {news[j] : j \in 1..Len(news)}
               oldOf(n) == olds[CHOOSE j \in 1..Len(news) : news[j] = n]
               tableOf(t) == IF t \in to_add THEN tab[oldOf(t)].st.table_id
                             ELSE tab[t].st.table_id
               needs_create_rpc == preparing \cup to_add
               enough == \A t \in needs_create_rpc :
                           tbl[tableOf(t)].st.num_replicas <= Cardinality(ts_descs)
           IN
           IF preparing = {} /\ timed_out = {}
             THEN /\ tab' = release
                  /\ th' = [th EXCEPT ![h] = Finish([th[h] EXCEPT !.st = "OK"])]
                  /\ UNCHANGED <<sideVars, sysVars, tablet_map, tbl, tasks>>
           ELSE IF ~enough
             THEN /\ tab' = release
                  /\ th' = [th EXCEPT ![h] =
                       Finish([th[h] EXCEPT !.st = "InvalidArgument"])]
                  /\ UNCHANGED <<sideVars, sysVars, tablet_map, tbl, tasks>>
           ELSE \E config \in [needs_create_rpc ->
                               UNION {SelectReplicas(ts_descs, n) :
                                        n \in 1..Cardinality(ts_descs)}] :
                /\ \A t \in needs_create_rpc :
                     config[t] \in SelectReplicas(ts_descs,
                                                  tbl[tableOf(t)].st.num_replicas)
                /\ LET sel == [t \in needs_create_rpc |->
                                {config[t][j] : j \in DOMAIN config[t]}]
                       dirtyOf(t) ==
                         IF t \in to_add
                           THEN [tab[oldOf(t)].st EXCEPT !.state = "CREATING",
                                                          !.cstate = NewCState(sel[t])]
                         ELSE IF t \in preparing
                           THEN [tab[t].dirty EXCEPT !.state = "CREATING",
                                                     !.cstate = NewCState(sel[t])]
                         ELSE IF t \in timed_out
                           THEN [tab[t].dirty EXCEPT !.state = "REPLACED"]
                         ELSE tab[t].dirty
                       written == preparing \cup timed_out \cup to_add
                   IN \E s \in statuses :
                        IF s # "OK"
                          THEN /\ tab' = release
                               /\ th' = [th EXCEPT ![h] =
                                    Finish([th[h] EXCEPT !.st = s, !.ws = s])]
                               /\ UNCHANGED <<sideVars, sysVars, tablet_map, tbl, tasks>>
                          ELSE /\ sys_tablets' = [t \in TabletIds |->
                                    IF t \in written THEN dirtyOf(t) ELSE sys_tablets[t]]
                               /\ tab' = [t \in TabletIds |->
                                    IF t \in to_add
                                      THEN [st |-> dirtyOf(t), dirty |-> NoRec,
                                            wl |-> NoOwner, rsv |-> NOT_YET_REPORTED]
                                    ELSE IF t \in held
                                      THEN Commit([tab[t] EXCEPT !.dirty = dirtyOf(t)])
                                    ELSE tab[t]]
                               /\ tbl' = [i \in TableIds |->
                                    LET mine == {t \in to_add : tableOf(t) = i} IN
                                    IF mine = {} THEN tbl[i]
                                    ELSE [tbl[i] EXCEPT
                                      !.tmap = [k \in Keys |->
                                         IF \E t \in mine : dirtyOf(t).pstart = k
                                           THEN CHOOSE t \in mine : dirtyOf(t).pstart = k
                                           ELSE tbl[i].tmap[k]],
                                      !.svc = [v \in NOT_YET_REPORTED..MaxVersion |->
                                         tbl[i].svc[v]
                                         - Cardinality({t \in mine :
                                             /\ tbl[i].tmap[dirtyOf(t).pstart] # NoId
                                             /\ tab[tbl[i].tmap[dirtyOf(t).pstart]].rsv = v})
                                         + (IF v = NOT_YET_REPORTED
                                              THEN Cardinality(mine) ELSE 0)]]]
                               /\ tablet_map' = tablet_map \cup to_add
                               /\ tasks' = tasks
                                    \cup UNION {DeleteTabletTasks(tableOf(t), t, dirtyOf(t)) :
                                                  t \in timed_out}
                                    \cup UNION {CreateTabletTasks(tableOf(t), t, dirtyOf(t)) :
                                                  t \in needs_create_rpc}
                               /\ sys_tables' = sys_tables
                               /\ th' = [th EXCEPT ![h] =
                                    Finish([th[h] EXCEPT !.st = "OK", !.ws = s])]
  /\ UNCHANGED <<sideVars, leaderVars, gate_readers, table_ids_map, table_names_map,
                 reserved_table_names>>

\* any set of tablet servers may be live, and the write may fail
BgProcess == ProcessPendingAssignments(SUBSET TServers, WriteStatuses)

CatalogManagerBgTasks == BgBegin \/ BgLockTablet \/ BgProcess \/ Return(BgThread)

(***************************************************************************)
(* CatalogManager::ProcessTabletReport (a report about one tablet)         *)
(***************************************************************************)
\* the consensus state of a record that has none reads as the protobuf's
\* defaults (lines 3379-3380)
PrevCState(rec) ==
  IF rec.cstate = NoCState
    THEN [opid |-> 0, term |-> 0, leader |-> NoTS, peers |-> {}]
    ELSE rec.cstate

\* a transition that does not wait for a leader
ShouldTransitionTabletToRunning_NoLeader(trec, report, cstate) ==
  ~TabletIsRunning(trec) /\ report.state = "RUNNING"

\* ShouldTransitionTabletToRunning
ShouldTransitionTabletToRunning(trec, report, cstate) ==
  /\ ~TabletIsRunning(trec)
  /\ report.state = "RUNNING"
  /\ \/ ~FLAGS_catalog_manager_wait_for_new_tablets_to_elect_leader
     \/ cstate.leader # NoTS /\ cstate.leader \in cstate.peers

\* AsyncDeleteReplica with a delete type and a CAS opid-index
AsyncDeleteReplica(i, t, ts, delete_type, cas) ==
  [type |-> "DeleteReplica", table |-> i, tablet |-> t, ts |-> ts, cas |-> cas,
   delete_type |-> delete_type]

\* AsyncAddReplicaTask with its member type
AsyncAddReplicaTask(i, t, cstate, member_type) ==
  [type |-> "AddReplica", table |-> i, tablet |-> t, ts |-> NoTS,
   cas |-> cstate.opid, member_type |-> member_type]

\* AsyncAddReplicaTask::SendRequest, lines 3176-3196: the ChangeConfig
\* request of an addition; mode is
\* FLAGS_raft_prepare_replacement_before_eviction
AddReplicaRequest(task, mode) ==
  [type |-> "ADD_PEER", cas_config_opid_index |-> task.cas,
   member_type |-> task.member_type,
   promote |-> mode /\ task.member_type = "NON_VOTER"]

\* tombstones that carry the index of the config the report brought
EvictedReplicaTasks_NewIndex(i, t, prev_cstate, cstate) ==
  {AsyncDeleteReplica(i, t, p, "TOMBSTONED", cstate.opid) :
     p \in prev_cstate.peers \ cstate.peers}

\* step 7d(iii), lines 3505-3523: a tombstone for every peer of the previous
\* committed config that is not in the new one
EvictedReplicaTasks(i, t, prev_cstate, cstate) ==
  IF FLAGS_master_tombstone_evicted_tablet_replicas
    THEN {AsyncDeleteReplica(i, t, p, "TOMBSTONED", prev_cstate.opid) :
            p \in prev_cstate.peers \ cstate.peers}
    ELSE {}

\* a change of config although the report has a pending config
ChangeConfigTasks_IgnorePending(i, t, tblrec, report, cstate, updated, mode, advice) ==
  IF ~mode
    THEN IF /\ updated
            /\ FLAGS_master_add_server_when_underreplicated
            /\ Cardinality(cstate.peers) < tblrec.num_replicas
           THEN {AsyncAddReplicaTask(i, t, cstate, "VOTER")}
           ELSE {}
  ELSE IF cstate.leader # NoTS /\ cstate.leader = report.ts
    THEN IF advice = "evict"
           THEN {ReplicaTask("EvictReplica", i, t, NoTS, cstate.opid)}
         ELSE IF advice = "add" /\ FLAGS_master_add_server_when_underreplicated
           THEN {AsyncAddReplicaTask(i, t, cstate, "NON_VOTER")}
         ELSE {}
  ELSE {}

\* step 7e, lines 3526-3566: the change of config the report leads to.
\* mode is FLAGS_raft_prepare_replacement_before_eviction, advice the answer
\* of ShouldEvictReplica / ShouldAddReplica (the eviction of excess replicas
\* is enabled).
ChangeConfigTasks(i, t, tblrec, report, cstate, updated, mode, advice) ==
  IF ~mode
    THEN IF /\ updated
            /\ FLAGS_master_add_server_when_underreplicated
            /\ Cardinality(cstate.peers) < tblrec.num_replicas
           THEN {AsyncAddReplicaTask(i, t, cstate, "VOTER")}
           ELSE {}
  ELSE IF ~report.pending /\ cstate.leader # NoTS /\ cstate.leader = report.ts
    THEN IF advice = "evict"
           THEN {ReplicaTask("EvictReplica", i, t, NoTS, cstate.opid)}
         ELSE IF advice = "add" /\ FLAGS_master_add_server_when_underreplicated
           THEN {AsyncAddReplicaTask(i, t, cstate, "NON_VOTER")}
         ELSE {}
  ELSE {}

\* an update whenever the term grew, leader or not
ConsensusStateUpdated_OnTermAlone(cstate, prev_cstate) ==
  \/ cstate.opid > prev_cstate.opid
  \/ cstate.leader # NoTS /\ prev_cstate.leader = NoTS
  \/ cstate.term > prev_cstate.term

\* step 7d, lines 3453-3457: consensus_state_updated
ConsensusStateUpdated(cstate, prev_cstate) ==
  \/ cstate.opid > prev_cstate.opid
  \/ /\ cstate.leader # NoTS
     /\ prev_cstate.leader = NoTS \/ cstate.term > prev_cstate.term

\* Steps 4-9 for one tablet.  The outcome: the tablet's dirty copy, whether
\* the tablet joins the write batch, the RPCs queued, and whether a debug
\* build stops at a DCHECK / LOG(DFATAL) on the way.  prepare_replacement is
\* FLAGS_raft_prepare_replacement_before_eviction, advice the policy
\* functions' answer ("none", "evict", "add").
ReportOutcome(t, trec, tblrec, report, prepare_replacement, advice) ==
  LET i == trec.table_id
      prev == PrevCState(trec)
      skip == [dirty |-> trec, inbatch |-> FALSE, rpcs |-> {}, dcheck |-> FALSE]
      has_opid == report.cs # NoCState /\ report.cs.opid # kInvalidOpIdIndex
      report_opid == IF has_opid THEN report.cs.opid ELSE kInvalidOpIdIndex
      cs0 == IF report.cs = NoCState THEN prev ELSE
               [opid |-> report.cs.opid, term |-> report.cs.term,
                leader |-> IF report.cs.leader \in report.cs.peers
                             THEN report.cs.leader ELSE NoTS,
                peers |-> report.cs.peers]
      running == ShouldTransitionTabletToRunning(trec, report, cs0)
      d1 == IF running THEN [trec EXCEPT !.state = "RUNNING"] ELSE trec
      dcheck1 == running /\ trec.state # "CREATING"
      updated == ConsensusStateUpdated(cs0, prev)
      same_term == cs0.term = prev.term
      divergent == /\ updated /\ same_term
                   /\ cs0.leader # NoTS /\ prev.leader # NoTS
                   /\ cs0.leader # prev.leader
      cs1 == IF same_term /\ cs0.leader = NoTS /\ prev.leader # NoTS
               THEN [cs0 EXCEPT !.leader = prev.leader] ELSE cs0
      evicted == EvictedReplicaTasks(i, t, prev, cs1)
      change == ChangeConfigTasks(i, t, tblrec, report, cs1, updated,
                                  prepare_replacement, advice)
      alter == IF report.sv # NOT_YET_REPORTED /\ report.sv # tblrec.version
                 THEN {ReplicaTask("AlterTable", i, t, NoTS, kInvalidOpIdIndex)}
                 ELSE {}
  IN
  IF TabletIsDeleted(trec) \/ TableIsDeleted(tblrec)
    THEN [skip EXCEPT !.rpcs =
            {ReplicaTask("DeleteReplica", i, t, report.ts, kInvalidOpIdIndex)}]
  ELSE IF /\ FLAGS_master_tombstone_evicted_tablet_replicas
          /\ report.data \notin {"TOMBSTONED", "DELETED"}
          /\ report.ts \notin prev.peers
          /\ report_opid < prev.opid
    THEN [skip EXCEPT !.rpcs =
            {AsyncDeleteReplica(i, t, report.ts, "TOMBSTONED", prev.opid)}]
  ELSE IF report.error THEN skip
  ELSE IF report.cs = NoCState
    THEN [skip EXCEPT !.rpcs = alter]
  ELSE IF ~has_opid THEN skip
  ELSE IF divergent
    THEN \* LOG(DFATAL) then continue: step 9 is not reached
         [dirty |-> d1, inbatch |-> FALSE, rpcs |-> {}, dcheck |-> TRUE]
  ELSE IF updated
    THEN [dirty |-> [d1 EXCEPT !.cstate = cs1], inbatch |-> TRUE,
          rpcs |-> evicted \cup change \cup alter, dcheck |-> dcheck1]
  ELSE [dirty |-> d1, inbatch |-> running, rpcs |-> change \cup alter,
        dcheck |-> dcheck1]

\* a master that asks the reporter to delete a tablet it does not know
UnknownTabletRpcs_Delete(report) ==
  {ReplicaTask("DeleteReplica", NoId, report.tablet, report.ts, kInvalidOpIdIndex)}

\* lines 3318-3329: a tablet id that is not in tablet_map_ is logged and
\* skipped; nothing is queued for it
UnknownTabletRpcs(report) == {}

\* lines 3303-3342: the lookup under lock_ and the table's READ lock
ReportFind(h, reports) ==
  /\ Alive /\ th[h].pc = "tr_find"
  /\ \E report \in reports :
       IF report.tablet \in tablet_map
         THEN /\ tbl' = [tbl EXCEPT ![tab[report.tablet].st.table_id].rd = @ \cup {h}]
              /\ th' = [th EXCEPT ![h] =
                   [th[h] EXCEPT !.pc = "tr_lock", !.parts = <<report>>,
                                 !.tbl = tab[report.tablet].st.table_id,
                                 !.todo = {report.tablet}]]
         ELSE /\ UNCHANGED <<sideVars, tbl>>
              /\ th' = [th EXCEPT ![h] =
                   [th[h] EXCEPT !.pc = "tr_lock", !.parts = <<report>>,
                                 !.adds = UnknownTabletRpcs(report)]]
  /\ UNCHANGED <<sideVars, leaderVars, gate_readers, sysVars, mapVars,
                 reserved_table_names, tab, tasks>>

\* line 3343: tablets_lock.Lock(WRITE)
ReportLockTablet(h) ==
  /\ Alive /\ th[h].pc = "tr_lock" /\ th[h].todo # {}
  /\ LET t == NextTabletToLock(h, th[h].todo) IN
       /\ CanWriteLock(tab[t])
       /\ tab' = [tab EXCEPT ![t] = WLock(tab[t], h)]
       /\ th' = [th EXCEPT ![h] =
            [th[h] EXCEPT !.todo = th[h].todo \ {t}, !.held = th[h].held \cup {t}]]
  /\ UNCHANGED <<sideVars, leaderVars, gate_readers, sysVars, mapVars,
                 reserved_table_names, tbl, tasks>>

\* the table stays locked for reading
TablesUnlock_Keeps(h, i) == tbl

\* step 10, line 3599: tables_lock.Unlock()
TablesUnlock(h, i) ==
  IF i = NoId THEN tbl ELSE [tbl EXCEPT ![i].rd = @ \ {h}]

\* lines 3345-3619: process the tablet, unlock the table, write the mutated
\* tablets, commit every locked tablet
ReportProcess(h) ==
  /\ Alive /\ th[h].pc = "tr_lock" /\ th[h].todo = {}
  /\ LET report == th[h].parts[1]
         held == th[h].held
         i == th[h].tbl
     IN \E prepare_replacement \in BOOLEAN, advice \in {"none", "evict", "add"},
           debug \in BOOLEAN, s \in WriteStatuses :
          LET out(t) == ReportOutcome(t, tab[t].st, tbl[i].st, report,
                                      prepare_replacement, advice)
              unlocked == TablesUnlock(h, i)
          IN
          IF debug /\ \E t \in held : out(t).dcheck
            THEN /\ state_' = "kCrashed"
                 /\ UNCHANGED <<sideVars, sysVars, tbl, tab, th>>
          ELSE IF s # "OK"
            THEN /\ tbl' = unlocked
                 /\ tab' = [t \in TabletIds |->
                              IF t \in held THEN Abort(tab[t]) ELSE tab[t]]
                 /\ th' = [th EXCEPT ![h] = Finish([th[h] EXCEPT !.st = s, !.ws = s])]
                 /\ UNCHANGED <<sideVars, state_, sysVars>>
          ELSE /\ tbl' = unlocked
               /\ sys_tablets' = [t \in TabletIds |->
                    IF t \in held /\ out(t).inbatch THEN out(t).dirty
                    ELSE sys_tablets[t]]
               /\ sys_tables' = sys_tables
               /\ tab' = [t \in TabletIds |->
                    IF t \in held THEN Commit([tab[t] EXCEPT !.dirty = out(t).dirty])
                    ELSE tab[t]]
               /\ th' = [th EXCEPT ![h] =
                    [th[h] EXCEPT !.pc = "tr_schema", !.ws = s,
                                  !.mutated = {t \in held : out(t).inbatch},
                                  !.adds = th[h].adds \cup
                                             UNION {out(t).rpcs : t \in held}]]
               /\ UNCHANGED <<sideVars, state_>>
  /\ UNCHANGED <<sideVars, leader_ready_term, current_term, leader_is_self, elect_cb, prep,
                 gate_writer, gate_wwait, gate_readers, mapVars,
                 reserved_table_names, tasks>>

\* an alter that is never found in progress
IsAlterInProgress_Never(svc, version) == FALSE

\* TableInfo::IsAlterInProgress(version) over schema_version_counts_
IsAlterInProgress(svc, version) ==
  \E v \in NOT_YET_REPORTED..MaxVersion : svc[v] > 0 /\ v < version

\* lines 3621-3647: HandleTabletSchemaVersionReport for the reported tablet
\* (set_reported_schema_version, then under the table's WRITE lock the end
\* of the alter: write, commit), then the queued RPCs
ReportSchemaVersion(h) ==
  /\ Alive /\ th[h].pc = "tr_schema"
  /\ LET report == th[h].parts[1]
         i == th[h].tbl
         t == report.tablet
         bump == /\ report.sv > tab[t].rsv
                 /\ tbl[i].tmap[tab[t].st.pstart] = t
         svc1 == IF bump
                   THEN [tbl[i].svc EXCEPT ![tab[t].rsv] = @ - 1, ![report.sv] = @ + 1]
                   ELSE tbl[i].svc
         rec == tbl[i].st
         finish == /\ ~TableIsDeleted(rec) /\ rec.state = "ALTERING"
                   /\ ~IsAlterInProgress(svc1, rec.version)
     IN
     IF th[h].held = {} \/ report.sv = NOT_YET_REPORTED
       THEN /\ tasks' = tasks \cup th[h].adds
            /\ th' = [th EXCEPT ![h] = Finish([th[h] EXCEPT !.st = "OK"])]
            /\ UNCHANGED <<sideVars, sysVars, tbl, tab>>
       ELSE /\ CanWriteLock(tbl[i])
            /\ finish => CanCommit(tbl[i], h)
            /\ tab' = [tab EXCEPT ![t].rsv = IF bump THEN report.sv ELSE @]
            /\ tasks' = tasks \cup th[h].adds
            /\ th' = [th EXCEPT ![h] = Finish([th[h] EXCEPT !.st = "OK"])]
            /\ \E s \in WriteStatuses :
                 IF finish /\ s = "OK"
                   THEN /\ sys_tables' = [sys_tables EXCEPT ![i] =
                             [rec EXCEPT !.state = "RUNNING", !.fas = NoSchema]]
                        /\ tbl' = [tbl EXCEPT ![i] =
                             [tbl[i] EXCEPT !.svc = svc1, !.st = sys_tables'[i]]]
                        /\ UNCHANGED <<sideVars, sys_tablets>>
                   ELSE /\ tbl' = [tbl EXCEPT ![i].svc = svc1]
                        /\ UNCHANGED <<sideVars, sysVars>>
  /\ UNCHANGED <<sideVars, leaderVars, gate_readers, mapVars, reserved_table_names>>

ProcessTabletReport(h, reports) ==
  \/ HandlerBegin(h, "TSHeartbeat", "tr_find")
  \/ ReportFind(h, reports)
  \/ ReportLockTablet(h)
  \/ ReportProcess(h)
  \/ ReportSchemaVersion(h)

(***************************************************************************)
(* Specifications.                                                         *)
(***************************************************************************)
PrepareForLeadershipTask ==
  PrepStart \/ PrepWait \/ PrepTerm \/ PrepLock \/ PrepLoad \/ PrepSecurity
    \/ PrepReady

Environment == InitStart \/ InitDone \/ Shutdown \/ TermChange

\* the requests clients send
WholeRange == << <<0, 0>> >>

CreateTable(h, reqs) ==
  \/ HandlerBegin(h, "CreateTable", "ct_validate")
  \/ CreateTableValidate(h, reqs)
  \/ CreateTableWrite(h)
  \/ CreateTablePublish(h)

DeleteTable(h, reqs) ==
  \/ HandlerBegin(h, "DeleteTable", "dt_find")
  \/ DeleteTableFind(h, reqs)
  \/ DeleteTableLock(h)
  \/ DeleteTableLockTablet(h)
  \/ DeleteTableWrite(h)
  \/ DeleteTableCommit(h)

NoSteps == << >>

AlterTable(h, reqs) ==
  \/ HandlerBegin(h, "AlterTable", "at_find")
  \/ AlterTableFind(h, reqs)
  \/ AlterTableLock(h)
  \/ AlterTableLockTablet(h)
  \/ AlterTableWrite(h)
  \/ AlterTableCommit(h)

\* Elections between requests that this master wins: the directory
\* specifications fix the leadership noise and keep every reload.
QuietThreads == \A h \in Threads : th[h].pc = "idle"
Elected == TermChange /\ QuietThreads /\ leader_is_self'
Startup == InitStart \/ InitDone \/ Elected
\* ... or the first election only: the directory is loaded once
StartupOnce == InitStart \/ InitDone \/ (Elected /\ current_term = 0)

(* The leadership gate: every life-cycle event and election at any time,    *)
(* two handlers and the background thread.                                  *)
GateCreateReqs == {[name |-> "a", nr |-> 1, valid |-> "ok", parts |-> WholeRange]}
NextGate ==
  \/ Environment
  \/ PrepareForLeadershipTask
  \/ CatalogManagerBgTasks
  \/ \E h \in Handlers : CreateTable(h, GateCreateReqs) \/ Return(h)

SpecGate == Init /\ [][NextGate]_vars

(* The directory: CreateTable, AlterTable (rename) and DeleteTable from two *)
(* handlers.                                                                *)
DirCreateReqs ==
  {[name |-> n, nr |-> 1, valid |-> "ok", parts |-> WholeRange] : n \in Names}
    \cup {[name |-> "a", nr |-> 2, valid |-> "ok", parts |-> WholeRange],
          [name |-> "a", nr |-> 1, valid |-> "bad_schema", parts |-> WholeRange]}
DirDeleteReqs == {[name |-> n, id |-> NoId] : n \in Names}
Rename(n, m) ==
  [name |-> n, id |-> NoId, has_new_table_name |-> TRUE, new_table_name |-> m,
   ssteps |-> NoSteps, psteps |-> NoSteps]
DirAlterReqs ==
  {Rename(n, m) : n \in Names, m \in Names}
    \cup {[Rename("a", "b") EXCEPT !.psteps =
             <<[type |-> "ADD_RANGE_PARTITION", lo |-> 0, hi |-> 1]>>],
          [Rename("a", "b") EXCEPT !.psteps =
             <<[type |-> "DROP_RANGE_PARTITION", lo |-> 0, hi |-> 0],
               [type |-> "ADD_RANGE_PARTITION", lo |-> 0, hi |-> 1],
               [type |-> "ADD_RANGE_PARTITION", lo |-> 0, hi |-> 1]>>],
          [Rename("a", "b") EXCEPT !.ssteps =
             <<[type |-> "DROP_COLUMN", col |-> "key"]>>],
          [Rename("a", "a") EXCEPT !.has_new_table_name = FALSE, !.psteps =
             <<[type |-> "DROP_RANGE_PARTITION", lo |-> 0, hi |-> 0]>>]}
NextDir ==
  \/ Startup
  \/ PrepareForLeadershipTask
  \/ CreateTable(1, DirCreateReqs) \/ AlterTable(1, DirAlterReqs) \/ Return(1)
  \/ CreateTable(2, DirCreateReqs) \/ DeleteTable(2, DirDeleteReqs) \/ Return(2)

SpecDir == Init /\ [][NextDir]_vars

(* The reconciler against CreateTable and DeleteTable.                      *)
BgCreateReqs == {[name |-> "a", nr |-> 1, valid |-> "ok", parts |-> WholeRange]}
BgDeleteReqs == {[name |-> "a", id |-> NoId]}
NextBg ==
  \/ Startup
  \/ PrepareForLeadershipTask
  \/ CatalogManagerBgTasks
  \/ CreateTable(1, BgCreateReqs) \/ DeleteTable(1, BgDeleteReqs) \/ Return(1)

SpecBg == Init /\ [][NextBg]_vars

(* Tablet reports against CreateTable and the reconciler.                   *)
Report(ts, st, opid, term, leader, peers, sv) ==
  [ts |-> ts, tablet |-> 1, state |-> st, data |-> "READY", error |-> FALSE,
   pending |-> FALSE,
   cs |-> [opid |-> opid, term |-> term, leader |-> leader, peers |-> peers],
   sv |-> sv]
Reports ==
  {Report("ts1", "OTHER", 0, 1, "ts1", {"ts1"}, NOT_YET_REPORTED),
   Report("ts1", "RUNNING", 0, 1, "ts1", {"ts1"}, 0),
   Report("ts1", "RUNNING", 1, 1, "ts2", {"ts1", "ts2"}, 0)}
NextReport ==
  \/ Startup
  \/ PrepareForLeadershipTask
  \/ CatalogManagerBgTasks
  \/ CreateTable(1, BgCreateReqs) \/ Return(1)
  \/ ProcessTabletReport(2, Reports) \/ Return(2)

SpecReport == Init /\ [][NextReport]_vars


(***************************************************************************)
(* Properties of the leadership gate, checked under SpecGate.              *)
(***************************************************************************)
\* C1: a handler or a reconciler iteration proceeds to its body only if, at
\* the check, the catalog is running, this master is the leader,
\* leader_ready_term equals the current term and the gate was acquired for
\* reading; otherwise it is refused (a handler with NOT_THE_LEADER) and the
\* directory, the system tablet and the RPC tasks are untouched.
C1_EntryOnlyWhenLeaderReady ==
  [][\A h \in Threads :
       (th[h].pc = "idle" /\ th'[h].pc # "idle") =>
          IF th'[h].st # "refused"
            THEN /\ state_ = "kRunning"
                 /\ leader_is_self
                 /\ leader_ready_term = current_term
                 /\ h \notin gate_readers /\ h \in gate_readers'
                 /\ ~gate_writer
            ELSE /\ th'[h].pc = "done"
                 /\ h \in Handlers => th'[h].resp = "NOT_THE_LEADER"
                 /\ UNCHANGED dirVars]_vars

\* one handler is in its body while another request was refused
C1_Witness ==
  \E h, g \in Threads :
     /\ th[h].pc = "ct_write"
     /\ th[g].st = "refused" /\ g \in Handlers
     /\ leader_ready_term # current_term

\* C2: while the prepare task holds the gate for writing and reloads the
\* directory, no thread holds the gate for reading and no handler body or
\* reconciler iteration is past its entry check.
C2_PrepareExcludesBodies ==
  (gate_writer \/ prep.pc \in {"load", "security"}) =>
     /\ gate_writer
     /\ gate_readers = {}
     /\ \A h \in Threads : th[h].pc \in {"idle", "done"}
     /\ \A h \in Threads : th[h].pc = "done" => th[h].st = "refused"

\* the prepare task reloads a directory that holds a table while a request
\* that arrived during the reload has been refused
C2_Witness ==
  /\ gate_writer /\ prep.pc = "load"
  /\ table_ids_map # {}
  /\ \E h \in Handlers : th[h].st = "refused"


(***************************************************************************)
(* Write before commit, checked under SpecReport.                          *)
(***************************************************************************)
\* C3: a table's or tablet's committed record never runs ahead of the system
\* tablet -- it is the record the system tablet holds, or the entity is
\* write-locked by an operation whose write of the dirty copy has succeeded
\* and whose commit is pending -- and the directory maps hold only entities
\* the system tablet holds.
C3_CommitOnlyAfterWrite ==
  /\ \A i \in TableIds : tbl[i] # NoObj =>
        \/ tbl[i].st = sys_tables[i]
        \/ tbl[i].wl # NoOwner /\ tbl[i].dirty = sys_tables[i]
  /\ \A t \in TabletIds : tab[t] # NoObj =>
        \/ tab[t].st = sys_tablets[t]
        \/ tab[t].wl # NoOwner /\ tab[t].dirty = sys_tablets[t]
  /\ \A i \in table_ids_map : sys_tables[i] # NoRec
  /\ \A t \in tablet_map : sys_tablets[t] # NoRec


(***************************************************************************)
(* DeleteTable against the reconciler, checked under SpecBg.               *)
(***************************************************************************)
\* C9: once a table's committed state is REMOVED, every tablet of that table
\* in the tablet map is DELETED or REPLACED; none stays PREPARING, CREATING
\* or RUNNING.
C9_NoLiveTabletOfRemovedTable ==
  \A i \in table_ids_map :
     TableIsDeleted(tbl[i].st) =>
        \A t \in tablet_map :
           tab[t].st.table_id = i => TabletIsDeleted(tab[t].st)


(***************************************************************************)
(* The directory of tables, checked under SpecDir.                         *)
(***************************************************************************)
\* the tables of the by-id map whose committed state is not REMOVED
LiveTables == {i \in table_ids_map : ~TableIsDeleted(tbl[i].st)}
\* no request is between its entry check and the end of its body
NoBodyRunning == \A h \in Threads : th[h].pc \in {"idle", "done"}

\* C4: whenever no request is inside its body, no two tables that are not
\* REMOVED have the same committed name and the by-name map holds exactly the
\* live table of each name; and at no time are two requests past the
\* reservation of the same name, so of two concurrent CreateTable requests
\* for one name at most one goes on to create the table.
C4_NamesUnique ==
  /\ NoBodyRunning =>
        /\ \A i, j \in LiveTables : tbl[i].st.name = tbl[j].st.name => i = j
        /\ \A i \in LiveTables : table_names_map[tbl[i].st.name] = i
        /\ \A n \in Names : table_names_map[n] # NoId =>
              /\ table_names_map[n] \in LiveTables
              /\ tbl[table_names_map[n]].st.name = n
  /\ \A h, g \in Handlers :
        (h # g /\ th[h].reserved # NoName) => th[h].reserved # th[g].reserved
  /\ \A h, g \in Handlers :
        (/\ h # g
         /\ th[h].op = "CreateTable" /\ th[g].op = "CreateTable"
         /\ th[h].name = th[g].name
         /\ th[h].pc \in {"ct_write", "ct_publish"}) =>
           th[g].pc \notin {"ct_write", "ct_publish"}

\* two CreateTable requests for one name met: one created the table, the
\* other was turned away
C4_Witness ==
  \E h, g \in Handlers :
     /\ th[h].op = "CreateTable" /\ th[h].pc = "ct_publish"
     /\ th[g].op = "CreateTable" /\ th[g].pc = "done"
     /\ th[g].name = th[h].name
     /\ th[g].st = "ServiceUnavailable" /\ th[g].resp = "TABLE_ALREADY_PRESENT"
     /\ LiveTables # {}

\* C5: a CreateTable or AlterTable request that ends in a rejection before
\* its system-tablet write leaves the system tablet, the three maps, every
\* table and tablet record and the RPC tasks as they were, and changes the
\* reserved names by at most its own reservation.
C5_RejectionChangesNothing ==
  [][\A h \in Handlers :
       (/\ th[h].pc \in {"ct_validate", "at_find", "at_lock"}
        /\ th'[h].pc = "done") =>
          /\ th'[h].st # "OK"
          /\ UNCHANGED <<sysVars, mapVars, tbl, tab, tasks>>
          /\ reserved_table_names' \ {th'[h].reserved}
               = reserved_table_names \ {th'[h].reserved}]_vars

\* an AlterTable rename was rejected by its partition steps after it had
\* reserved the new name
C5_Witness ==
  \E h \in Handlers :
     /\ th[h].op = "AlterTable" /\ th[h].pc = "done"
     /\ th[h].resp = "UNKNOWN_ERROR"
     /\ th[h].reserved # NoName
     /\ table_ids_map # {}

\* C6: a CreateTable, DeleteTable or AlterTable whose system-tablet write
\* failed returns the write's status, with NOT_THE_LEADER in the response
\* exactly when that status is IllegalState or Aborted.
C6_WriteFailureCode ==
  \A h \in Handlers :
     (th[h].pc = "done" /\ th[h].ws \notin {"none", "OK"}) =>
        /\ th[h].st = th[h].ws
        /\ th[h].ws \in {"IllegalState", "Aborted"} => th[h].resp = "NOT_THE_LEADER"
        /\ th[h].ws \notin {"IllegalState", "Aborted"} => th[h].resp = "none"

\* one request's write was aborted and another's failed otherwise
C6_Witness ==
  \E h, g \in Handlers :
     /\ th[h].pc = "done" /\ th[h].ws = "Aborted" /\ th[h].op = "AlterTable"
     /\ th[g].pc = "done" /\ th[g].ws = "Other" /\ th[g].op = "DeleteTable"

\* C7: the reserved names are exactly the reservations of the requests that
\* have not returned yet; with no request in progress the set is empty.
C7_ReservationsAreScoped ==
  /\ reserved_table_names
       = {th[h].reserved : h \in Handlers} \ {NoName}
  /\ (\A h \in Handlers : th[h].pc = "idle") => reserved_table_names = {}

\* both names were reserved and released: the directory holds two tables
\* and no request is in progress
C7_Witness ==
  /\ \A h \in Handlers : th[h].pc = "idle"
  /\ reserved_table_names = {}
  /\ Cardinality(table_ids_map) = 2

\* C8: a table whose committed state is REMOVED is absent from the by-name
\* map, stays in the by-id map as long as the system tablet holds it, and
\* every table of the by-name map is in the by-id map with a committed state
\* other than REMOVED.
C8_RemovedNotByName ==
  /\ \A i \in TableIds :
        (tbl[i] # NoObj /\ TableIsDeleted(tbl[i].st)) =>
           /\ i \in table_ids_map
           /\ \A n \in Names : table_names_map[n] # i
  /\ \A n \in Names : table_names_map[n] # NoId =>
        /\ table_names_map[n] \in table_ids_map
        /\ ~TableIsDeleted(tbl[table_names_map[n]].st)

\* a REMOVED table went through a reload of the directory
C8_Witness ==
  /\ \E i \in table_ids_map : TableIsDeleted(tbl[i].st)
  /\ leader_ready_term = current_term /\ current_term > 1

\* C10: CreateTable of a name is turned away as already present only while
\* the by-name map holds a table under that name, which DeleteTable's success
\* ends; and publishing a new table takes an id the by-id map does not hold
\* and leaves every table of the by-id map, REMOVED ones included, in place.
C10_RecreateAfterDelete ==
  [][\A h \in Handlers :
       /\ (/\ th[h].pc = "ct_validate" /\ th'[h].pc = "done"
            /\ th'[h].resp = "TABLE_ALREADY_PRESENT") =>
              \/ \E i \in LiveTables : tbl[i].st.name = th'[h].name
              \/ th'[h].name \in reserved_table_names
       /\ (th[h].pc = "ct_publish" /\ th'[h].pc = "done") =>
              /\ th'[h].st = "OK"
              /\ th'[h].tid \notin table_ids_map
              /\ table_ids_map' = table_ids_map \cup {th'[h].tid}
              /\ table_names_map[th'[h].name] = NoId
              /\ table_names_map'[th'[h].name] = th'[h].tid
              /\ \A i \in table_ids_map : tbl'[i] = tbl[i]]_vars

\* the second CreateTable of a name succeeded with a new id while the first
\* table is in the by-id map as REMOVED
C10_Witness ==
  \E h \in Handlers : \E i \in table_ids_map :
     /\ th[h].op = "CreateTable" /\ th[h].pc = "done" /\ th[h].st = "OK"
     /\ th[h].tid # i
     /\ table_names_map[th[h].name] = th[h].tid
     /\ TableIsDeleted(tbl[i].st) /\ tbl[i].st.name = th[h].name
     /\ ~TableIsDeleted(tbl[th[h].tid].st)


(***************************************************************************)
(* AlterTable against schema-version reports, checked under SpecAlter and, *)
(* for progress, FairSpecAlter.                                            *)
(***************************************************************************)
AddColumn ==
  [Rename("a", "a") EXCEPT !.has_new_table_name = FALSE, !.ssteps =
     <<[type |-> "ADD_COLUMN", col |-> "c", ok |-> TRUE]>>]
DropRange(lo, hi) ==
  [Rename("a", "a") EXCEPT !.has_new_table_name = FALSE, !.psteps =
     <<[type |-> "DROP_RANGE_PARTITION", lo |-> lo, hi |-> hi]>>]
AddRange(lo, hi) ==
  [Rename("a", "a") EXCEPT !.has_new_table_name = FALSE, !.psteps =
     <<[type |-> "ADD_RANGE_PARTITION", lo |-> lo, hi |-> hi]>>]
AltAlterReqs == {AddColumn, DropRange(0, 0), AddRange(0, 1)}

\* a report that carries a schema version and no consensus state
SchemaReport(t, sv) ==
  [Report("ts1", "RUNNING", 0, 0, NoTS, {}, sv) EXCEPT !.tablet = t,
                                                       !.cs = NoCState]
AltReports == {SchemaReport(t, MaxVersion) : t \in TabletIds}

NextAlter ==
  \/ Startup
  \/ PrepareForLeadershipTask
  \/ CreateTable(1, BgCreateReqs) \/ AlterTable(1, AltAlterReqs) \/ Return(1)
  \/ ProcessTabletReport(2, AltReports) \/ Return(2)

SpecAlter == Init /\ [][NextAlter]_vars

\* Scheduling: every started step of a thread is taken; a tablet server
\* keeps reporting a tablet for as long as the directory holds it live; the
\* master is leader and ready, and its writes succeed, again and again.
LiveReport(r) ==
  /\ r.tablet \in tablet_map
  /\ ~TabletIsDeleted(tab[r.tablet].st)
FairSpecAlter ==
  /\ SpecAlter
  /\ WF_vars(Startup \/ PrepareForLeadershipTask)
  /\ \A h \in Handlers : WF_vars(Return(h))
  /\ WF_vars(CreateTableValidate(1, BgCreateReqs) \/ CreateTableWrite(1)
               \/ CreateTablePublish(1))
  /\ WF_vars(AlterTableFind(1, AltAlterReqs) \/ AlterTableLock(1)
               \/ AlterTableLockTablet(1) \/ AlterTableWrite(1)
               \/ AlterTableCommit(1))
  /\ SF_vars(ReportLockTablet(2))
  /\ SF_vars(HandlerBegin(2, "TSHeartbeat", "tr_find") /\ th'[2].pc = "tr_find")
  /\ \A r \in AltReports : SF_vars(ReportFind(2, {r}) /\ LiveReport(r))
  /\ \A t \in TabletIds :
        SF_vars(ReportProcess(2) /\ th[2].parts[1].tablet = t
                  /\ th'[2].pc = "tr_schema")
  /\ SF_vars(ReportSchemaVersion(2) /\ sys_tables' # sys_tables)
  /\ SF_vars(ReportSchemaVersion(2))

\* C11: a table in ALTERING whose remaining tablets have all reported its
\* current schema version (none remaining included) eventually leaves
\* ALTERING, unless the master process dies.
C11_AlterEventuallyDone ==
  \A i \in TableIds :
     (/\ i \in table_ids_map
      /\ tbl[i].wl = NoOwner
      /\ tbl[i].st.state = "ALTERING"
      /\ ~IsAlterInProgress(tbl[i].svc, tbl[i].st.version))
       ~> \/ i \in table_ids_map /\ tbl[i].st.state # "ALTERING"
          \/ ~Alive

\* C12: every table whose committed state is ALTERING has a
\* fully_applied_schema, and it differs from the table's schema.
C12_AlteringHasOldSchema ==
  \A i \in table_ids_map :
     tbl[i].st.state = "ALTERING" =>
        /\ tbl[i].st.fas # NoSchema
        /\ tbl[i].st.fas # tbl[i].st.schema

(* The reconciler against AlterTable (drop range) and tablet reports.       *)
RaceAlterReqs == {DropRange(0, 0)}
RaceReports == {SchemaReport(t, 0) : t \in TabletIds}
NextRace ==
  \/ StartupOnce
  \/ PrepareForLeadershipTask
  \/ CatalogManagerBgTasks
  \/ CreateTable(1, BgCreateReqs) \/ AlterTable(1, RaceAlterReqs) \/ Return(1)
  \/ ProcessTabletReport(2, RaceReports) \/ Return(2)

SpecRace == Init /\ [][NextRace]_vars

\* the tablets of table i's tablet map whose reported_schema_version is v
TabletsAtVersion(i, v) ==
  {k \in Keys : /\ tbl[i].tmap[k] # NoId
                /\ tab[tbl[i].tmap[k]].rsv = v}

\* C13: schema_version_counts_ counts every tablet of the table's tablet map
\* once, under its reported_schema_version (so the counts sum to the number
\* of tablets in the map).
C13_CountsMatchTabletMap ==
  \A i \in table_ids_map :
     \A v \in NOT_YET_REPORTED..MaxVersion :
        tbl[i].svc[v] = Cardinality(TabletsAtVersion(i, v))

\* C14: every tablet of the global tablet map belongs to a table that is in
\* the by-id map.
C14_TabletsHaveTables ==
  \A t \in tablet_map :
     /\ tab[t] # NoObj
     /\ tab[t].st.table_id \in table_ids_map

\* after a reload, the tablet map holds a tablet of a REMOVED table next to a
\* tablet the reconciler made as a replacement
C14_Witness ==
  /\ current_term > 1 /\ leader_ready_term = current_term
  /\ \E t \in tablet_map : TableIsDeleted(tbl[tab[t].st.table_id].st)
  /\ \E t \in tablet_map : tab[t].st.state = "REPLACED"

(* The reconciler's replica selection for tables of one and three replicas. *)
AssignCreateReqs ==
  {[name |-> "a", nr |-> n, valid |-> "ok", parts |-> WholeRange] : n \in {1, 3, 4, 5}}
    \cup {[name |-> "b", nr |-> 3, valid |-> "ok", parts |-> WholeRange]}
NextAssign ==
  \/ Startup
  \/ PrepareForLeadershipTask
  \/ CatalogManagerBgTasks
  \/ CreateTable(1, AssignCreateReqs) \/ Return(1)

SpecAssign == Init /\ [][NextAssign]_vars

\* the committed record of tablet object o, if there is one
CommittedOf(o) == IF o = NoObj THEN NoRec ELSE o.st

NextDone ==
  \/ Startup
  \/ PrepareForLeadershipTask
  \/ CatalogManagerBgTasks
  \/ CreateTable(1, BgCreateReqs) \/ DeleteTable(1, BgDeleteReqs)
  \/ ProcessTabletReport(1, {Report("ts1", "RUNNING", 0, 1, "ts1", {"ts1"}, 0)})
  \/ IsCreateTableDone(1, {[name |-> "a", id |-> NoId], [name |-> NoName, id |-> 1]})
  \/ Return(1)

SpecDone == Init /\ [][NextDone]_vars

\* C16: IsCreateTableDone on a table that is found and not deleted answers
\* OK with done = TRUE exactly when every tablet of the table's tablet map
\* is RUNNING in its committed record; a request naming a live table of the
\* by-name map gets that answer whenever the catalog is running.
C16_DoneIffAllRunning ==
  [][\A h \in Handlers :
       (th[h].pc = "icd" /\ th'[h].pc = "done") =>
          /\ th'[h].st = "OK" =>
               /\ th'[h].tid \in table_ids_map
               /\ ~TableIsDeleted(tbl[th'[h].tid].st)
               /\ th'[h].done <=>
                    \A k \in Keys :
                       tbl[th'[h].tid].tmap[k] # NoId =>
                          tab[tbl[th'[h].tid].tmap[k]].st.state = "RUNNING"
          /\ (/\ CatalogStatusOk
               /\ th'[h].name # NoName
               /\ table_names_map[th'[h].name] # NoId
               /\ tbl[table_names_map[th'[h].name]].st.name = th'[h].name
               /\ ~TableIsDeleted(tbl[table_names_map[th'[h].name]].st)) =>
                 th'[h].st = "OK" /\ th'[h].tid = table_names_map[th'[h].name]
          /\ th'[h].st # "OK" => ~th'[h].done]_vars

\* IsCreateTableDone answered done for a table whose tablet is RUNNING
C16_Witness ==
  \E h \in Handlers :
     /\ th[h].pc = "done" /\ th[h].op = "IsCreateTableDone"
     /\ th[h].st = "OK" /\ th[h].done
     /\ GetAllTablets(th[h].tid) # {}

\* ... and answered not done for a table whose tablet the reconciler replaced
C16_WitnessNotDone ==
  \E h \in Handlers :
     /\ th[h].pc = "done" /\ th[h].op = "IsCreateTableDone"
     /\ th[h].st = "OK" /\ ~th[h].done
     /\ \E t \in tablet_map : tab[t].st.state = "REPLACED"

(* Tablet reports of a replica that runs schema version 0, against          *)
(* CreateTable, an AlterTable that adds a column, and the reconciler.       *)
NextReplay ==
  \/ StartupOnce
  \/ PrepareForLeadershipTask
  \/ CatalogManagerBgTasks
  \/ CreateTable(1, BgCreateReqs) \/ AlterTable(1, {AddColumn, DropRange(0, 0)}) \/ Return(1)
  \/ ProcessTabletReport(2, {Report("ts1", "RUNNING", 0, 1, "ts1", {"ts1"}, 0)})
  \/ Return(2)

SpecReplay == Init /\ [][NextReplay]_vars

\* C17: once a report with a consensus state about a CREATING or RUNNING
\* tablet of a live table has been processed and committed, processing the same report again
\* (in either replica-management mode, the health advice asking for nothing)
\* mutates no tablet record, puts nothing in the write batch and queues no
\* RPC.
C17_ReplayChangesNothing ==
  [][\A h \in Handlers :
       (th[h].pc = "tr_lock" /\ th'[h].pc = "tr_schema") =>
          \A t \in th[h].held :
             (/\ tab[t].st.state \in {"CREATING", "RUNNING"}
              /\ ~TableIsDeleted(tbl[th[h].tbl].st)
              /\ th[h].parts[1].cs # NoCState
              /\ ~th[h].parts[1].error) =>
                \A prepare_replacement \in BOOLEAN :
                   LET again == ReportOutcome(t, tab'[t].st, tbl'[th[h].tbl].st,
                                              th[h].parts[1],
                                              prepare_replacement, "none")
                   IN /\ ~again.inbatch
                      /\ again.dirty = tab'[t].st
                      /\ again.rpcs = {}]_vars

\* handler h is at a step of ProcessTabletReport for a report whose tablet
\* id was not found in the tablet map
UnknownReport(h) ==
  /\ th[h].op = "TSHeartbeat"
  /\ th[h].pc \in {"tr_lock", "tr_schema"}
  /\ th[h].tbl = NoId

\* C18: the steps of ProcessTabletReport for a report whose tablet id is not
\* in the tablet map, from the lookup on, change no table or tablet record,
\* no map, nothing in the system tablet, and queue no RPC task.
C18_UnknownTabletIgnored ==
  [][\A h \in Handlers :
       (/\ th'[h] # th[h]
        /\ \/ UnknownReport(h)
           \/ /\ th[h].pc = "tr_find" /\ th'[h].pc = "tr_lock"
              /\ th'[h].parts[1].tablet \notin tablet_map) =>
          /\ UNCHANGED <<tbl, tab, tasks, sysVars, mapVars>>
          /\ th'[h].held = {}
          /\ th'[h].pc \in {"tr_lock", "tr_schema", "done"}
          /\ th'[h].pc # "done" => th'[h].tbl = NoId]_vars

\* the report of an unknown tablet id went through the whole handler while
\* the directory holds another tablet
C18_Witness ==
  \E h \in Handlers :
     /\ UnknownReport(h) /\ th[h].pc = "tr_schema"
     /\ th[h].parts[1].tablet \notin tablet_map
     /\ tablet_map # {}

\* C19: a CreateTable request that reaches the validation with more replicas
\* than there are live tablet servers ends there with the code
\* REPLICATION_FACTOR_TOO_HIGH, and no table or tablet is made.
C19_TooFewServers ==
  [][\A h \in Handlers :
       (/\ th[h].pc = "ct_validate" /\ th'[h].pc # "ct_validate"
        /\ CatalogStatusOk
        /\ FLAGS_catalog_manager_check_ts_count_for_create_table
        /\ th'[h].nr > NumLiveTServers) =>
          /\ th'[h].pc = "done"
          /\ th'[h].resp = "REPLICATION_FACTOR_TOO_HIGH"
          /\ UNCHANGED <<tbl, tab, sysVars, mapVars, reserved_table_names>>]_vars

(* Range partitions: a table created with one range and AlterTable          *)
(* requests that add and drop the ranges [0, 1), [1, 0) and [0, 0), where   *)
(* an end of 0 is no upper bound; a second thread alters the table at the   *)
(* same time.                                                               *)
NextRange ==
  \/ Startup
  \/ PrepareForLeadershipTask
  \/ CreateTable(1, {[name |-> "a", nr |-> 1, valid |-> "ok", parts |-> <<r>>] :
                        r \in {<<0, 1>>, <<1, 0>>}})
  \/ AlterTable(1, {AddRange(r[1], r[2]) :
                        r \in {k \in Keys \X Keys : k[2] = 0 \/ k[1] < k[2]}}
                      \cup {DropRange(r[1], r[2]) :
                        r \in {k \in Keys \X Keys : k[2] = 0 \/ k[1] < k[2]}}
                      \cup {[AddRange(0, 1) EXCEPT !.psteps =
                                @ \o DropRange(lo, 0).psteps \o AddRange(0, 0).psteps] :
                             lo \in Keys})
  \/ AlterTable(2, {AddRange(0, 0), AddRange(1, 0), AddRange(0, 1), DropRange(0, 1)})
  \/ Return(2)
  \/ Return(1)

SpecRange == Init /\ [][NextRange]_vars

\* the key ranges [a, b) and [c, d) share a key (an end of 0 is unbounded)
Overlap(a, b, c, d) == (d = 0 \/ a < d) /\ (b = 0 \/ c < b)

\* C20: the tablets of a table's tablet map sit under their partition start
\* and their key ranges are pairwise disjoint; and an AlterTable whose
\* partition steps are accepted drops only tablets whose partition is exactly
\* the range of one of its DROP steps, each DROP step naming exactly the
\* partition of a tablet of the table or a range added before it in the
\* same request.
C20_RangesDisjoint ==
  [][/\ \A i \in table_ids_map' : \A k \in Keys :
          tbl'[i].tmap[k] # NoId =>
             /\ tab'[tbl'[i].tmap[k]].st.pstart = k
             /\ \A m \in Keys \ {k} :
                  tbl'[i].tmap[m] # NoId =>
                     ~Overlap(k, tab'[tbl'[i].tmap[k]].st.pend,
                              m, tab'[tbl'[i].tmap[m]].st.pend)
     /\ \A h \in Handlers :
          (th[h].pc = "at_lock" /\ th'[h].pc \in {"at_drops", "at_commit"}) =>
             LET steps == th[h].parts[1].psteps
                 i == th[h].tbl
             IN /\ \A t \in th'[h].drops :
                     \E j \in 1..Len(steps) :
                        /\ steps[j].type = "DROP_RANGE_PARTITION"
                        /\ steps[j].lo = tab[t].st.pstart
                        /\ steps[j].hi = tab[t].st.pend
                /\ \A j \in 1..Len(steps) :
                     steps[j].type = "DROP_RANGE_PARTITION" =>
                        \/ \E t \in GetAllTablets(i) :
                              /\ tab[t].st.pstart = steps[j].lo
                              /\ tab[t].st.pend = steps[j].hi
                        \/ \E n \in 1..(j - 1) :
                              /\ steps[n].type = "ADD_RANGE_PARTITION"
                              /\ steps[n].lo = steps[j].lo
                              /\ steps[n].hi = steps[j].hi]_vars

\* a table holds two tablets and an AlterTable was turned away at a
\* partition step
C20_Witness ==
  /\ \E i \in table_ids_map : \A k \in Keys : tbl[i].tmap[k] # NoId
  /\ th[1].pc = "done" /\ th[1].op = "AlterTable"
  /\ th[1].st = "InvalidArgument" /\ th[1].resp = "UNKNOWN_ERROR"

(***************************************************************************)
(* The consensus message queue of a leader with two remote peers, as       *)
(* ConsensusPeersTest drives it: operations are appended to the queue and   *)
(* to the local log, each peer sends what is pending when signalled, and a  *)
(* proxy may hold its response back.                                        *)
(***************************************************************************)
\* "a majority size of 2": the local log and one of the two remote peers
MajoritySize == 2

\* the indexes acknowledged to the queue: the local log's and the peers'
Watermarks(q) ==
  [x \in RemotePeers \cup {"peer-0"} |->
     IF x = "peer-0" THEN q.local ELSE q.peers[x].watermark]

\* the highest index any replica acknowledged
AnyReplicatedIndex(w) ==
  CHOOSE k \in 0..MaxOps :
    /\ \E x \in DOMAIN w : w[x] >= k
    /\ \A j \in (k + 1)..MaxOps : ~\E x \in DOMAIN w : w[x] >= j
\* the highest index a majority of the replicas acknowledged
MajorityReplicatedIndex(w) ==
  CHOOSE k \in 0..MaxOps :
    /\ Cardinality({x \in DOMAIN w : w[x] >= k}) >= MajoritySize
    /\ \A j \in (k + 1)..MaxOps :
         Cardinality({x \in DOMAIN w : w[x] >= j}) < MajoritySize

\* the queue after an acknowledgement: the committed index follows the majority
Acknowledged(q) ==
  [q EXCEPT !.committed = MajorityReplicatedIndex(Watermarks(q))]

\* AppendReplicateMessagesToQueue: one more operation in the queue
AppendReplicateMessagesToQueue ==
  /\ message_queue_.appended < MaxOps
  /\ message_queue_' = [message_queue_ EXCEPT !.appended = @ + 1]
  /\ UNCHANGED <<coreVars, sys_security, master_, rpc_task, background_tasks_>>

\* the local log finished appending an operation
LocalPeerAppendFinished ==
  /\ message_queue_.local < message_queue_.appended
  /\ message_queue_' = Acknowledged([message_queue_ EXCEPT !.local = @ + 1])
  /\ UNCHANGED <<coreVars, sys_security, master_, rpc_task, background_tasks_>>

\* remote_peer->SignalRequest(): an idle peer with operations pending sends them
SignalRequest(p) ==
  /\ message_queue_.peers[p].sent = 0 /\ message_queue_.peers[p].resp = 0
  /\ message_queue_.peers[p].watermark < message_queue_.appended
  /\ message_queue_' =
       [message_queue_ EXCEPT !.peers[p].sent = message_queue_.appended]
  /\ UNCHANGED <<coreVars, sys_security, master_, rpc_task, background_tasks_>>

\* NoOpTestPeerProxy: the remote end records the last operation and answers
ProxyUpdate(p) ==
  /\ message_queue_.peers[p].sent > 0
  /\ message_queue_' =
       [message_queue_ EXCEPT !.peers[p].last_received = message_queue_.peers[p].sent,
                              !.peers[p].resp = message_queue_.peers[p].sent,
                              !.peers[p].sent = 0]
  /\ UNCHANGED <<coreVars, sys_security, master_, rpc_task, background_tasks_>>

\* DelayablePeerProxy::DelayResponse: the next response is held back
DelayResponse(p) ==
  /\ ~message_queue_.peers[p].delay /\ message_queue_.peers[p].resp = 0
  /\ message_queue_' = [message_queue_ EXCEPT !.peers[p].delay = TRUE]
  /\ UNCHANGED <<coreVars, sys_security, master_, rpc_task, background_tasks_>>

\* DelayablePeerProxy::Respond: the held response is let go
ProxyRespond(p) ==
  /\ message_queue_.peers[p].delay /\ message_queue_.peers[p].resp > 0
  /\ message_queue_' = [message_queue_ EXCEPT !.peers[p].delay = FALSE]
  /\ UNCHANGED <<coreVars, sys_security, master_, rpc_task, background_tasks_>>

\* the peer's response reaches the queue
ResponseFromPeer(p) ==
  /\ message_queue_.peers[p].resp > 0 /\ ~message_queue_.peers[p].delay
  /\ message_queue_' =
       Acknowledged([message_queue_ EXCEPT
                       !.peers[p].watermark = message_queue_.peers[p].resp,
                       !.peers[p].resp = 0])
  /\ UNCHANGED <<coreVars, sys_security, master_, rpc_task, background_tasks_>>

NextQueue ==
  \/ AppendReplicateMessagesToQueue
  \/ LocalPeerAppendFinished
  \/ \E p \in RemotePeers : SignalRequest(p)
  \/ \E p \in RemotePeers : ProxyUpdate(p)
  \/ \E p \in RemotePeers : DelayResponse(p)
  \/ \E p \in RemotePeers : ProxyRespond(p)
  \/ \E p \in RemotePeers : ResponseFromPeer(p)

SpecQueue == Init /\ [][NextQueue]_vars

OtherCa == -1

\* a test of the write's status that takes every write for stored
StoreOk_Always(ws) == TRUE
\* RETURN_NOT_OK(StoreCertAuthorityInfo(...)) / RETURN_NOT_OK(AddTskEntry(...))
StoreOk(ws) == ws = "OK"

\* the check lambda, lines 903-938, on a failed step: the task bails when the
\* catalog is closing or the term moved, any other failure is fatal
PrepStepFailed ==
  /\ prep' = IdlePrep
  /\ gate_writer' = FALSE
  /\ state_' = IF state_ = "kClosing" \/ current_term # prep.term
                 THEN state_ ELSE "kCrashed"

\* ElectedAsLeaderCb without an election: consensus reports another change
\* of its state ("dirty callback", line 871) while this master leads
DirtyCallback ==
  /\ state_ \in {"kStarting", "kRunning"}
  /\ leader_is_self /\ elect_cb < MaxElectCb
  /\ elect_cb' = elect_cb + 1
  /\ UNCHANGED <<sideVars, state_, leader_ready_term, current_term, leader_is_self,
                 gate_readers, gate_writer, gate_wwait, prep, dirVars, th>>

\* while another master leads, it may store its own CA record
OtherMasterStoresCa ==
  /\ Alive /\ ~leader_is_self /\ current_term > 0
  /\ sys_security.ca = NoKey
  /\ sys_security' = [sys_security EXCEPT !.ca = OtherCa]
  /\ UNCHANGED <<coreVars, message_queue_, rpc_task, master_, background_tasks_>>

\* InitCertAuthority under check(): load the record and initialize with it, or
\* generate a key pair, store it, and initialize with it once it is stored
InitCertAuthority ==
  /\ Alive /\ prep.pc = "security"
  /\ \E load_failed \in BOOLEAN, ws \in WriteStatuses :
       LET found == sys_security.ca # NoKey
           key == master_.generated + 1
       IN
       \/ /\ load_failed
          /\ PrepStepFailed
          /\ UNCHANGED <<sys_security, master_>>
       \/ /\ ~load_failed /\ found
          /\ master_' = [master_ EXCEPT !.cert_authority = sys_security.ca]
          /\ prep' = [prep EXCEPT !.pc = "tsk", !.ok = @ \cup {"ca"}]
          /\ UNCHANGED <<sys_security, state_, gate_writer>>
       \/ /\ ~load_failed /\ ~found /\ master_.generated < MaxKeys
          /\ sys_security' = IF ws = "OK" THEN [sys_security EXCEPT !.ca = key]
                                          ELSE sys_security
          /\ IF StoreOk(ws)
               THEN /\ master_' = [master_ EXCEPT !.cert_authority = key,
                                                  !.generated = key]
                    /\ prep' = [prep EXCEPT !.pc = "tsk", !.ok = @ \cup {"ca"}]
                    /\ UNCHANGED <<state_, gate_writer>>
               ELSE /\ master_' = [master_ EXCEPT !.generated = key]
                    /\ PrepStepFailed
  /\ UNCHANGED <<message_queue_, rpc_task, background_tasks_, leader_ready_term, current_term, leader_is_self,
                 gate_readers, gate_wwait, elect_cb, dirVars, th>>

\* TryGenerateNewTskUnlocked on the signer's keys: when the signer needs a
\* key, its entry is written first and the key added once the write succeeded
TryGenerateNewTsk(keys, need, ws) ==
  LET seq == master_.key_seq + 1 IN
  IF need /\ master_.key_seq < MaxKeys
    THEN [ok |-> StoreOk(ws),
          tsks |-> IF ws = "OK" THEN sys_security.tsks \cup {seq}
                                ELSE sys_security.tsks,
          keys |-> IF StoreOk(ws) THEN keys \cup {seq} ELSE keys,
          key_seq |-> seq]
    ELSE [ok |-> TRUE, tsks |-> sys_security.tsks, keys |-> keys,
          key_seq |-> master_.key_seq]

\* InitTokenSigner under check(): import the stored keys that have not
\* expired, generate a key if needed, then remove the expired entries
InitTokenSigner ==
  /\ Alive /\ prep.pc = "tsk"
  /\ \E load_failed, need \in BOOLEAN, ws \in WriteStatuses,
        expired \in SUBSET sys_security.tsks :
       LET imported == master_.token_signer \cup (sys_security.tsks \ expired)
           r == TryGenerateNewTsk(imported, need, ws)
       IN
       \/ /\ load_failed
          /\ PrepStepFailed
          /\ UNCHANGED <<sys_security, master_>>
       \/ /\ ~load_failed /\ ~r.ok
          /\ sys_security' = [sys_security EXCEPT !.tsks = r.tsks]
          /\ master_' = [master_ EXCEPT !.token_signer = r.keys,
                                        !.key_seq = r.key_seq]
          /\ PrepStepFailed
       \/ /\ ~load_failed /\ r.ok
          /\ sys_security' = [sys_security EXCEPT !.tsks = r.tsks \ expired]
          /\ master_' = [master_ EXCEPT !.token_signer = r.keys,
                                        !.key_seq = r.key_seq]
          /\ prep' = [prep EXCEPT !.pc = "ready", !.ok = @ \cup {"tsk"}]
          /\ gate_writer' = FALSE
          /\ UNCHANGED state_
  /\ UNCHANGED <<message_queue_, rpc_task, background_tasks_, leader_ready_term, current_term, leader_is_self,
                 gate_readers, gate_wwait, elect_cb, dirVars, th>>

\* CatalogManagerBgTasks::Run with no tablet to process, lines 487-539: under
\* the shared gate the leader refreshes the signing key; a failure that
\* leaves the signer without a valid key is fatal
BgRefreshTsk ==
  /\ Alive /\ th[BgThread].pc = "idle"
  /\ LET owns == TryLockShared IN
       /\ gate_readers' = IF owns THEN gate_readers \cup {BgThread} ELSE gate_readers
       /\ th' = [th EXCEPT ![BgThread] =
                   [IdleTh EXCEPT !.pc = "done", !.op = "Bg", !.owns = owns]]
       /\ IF FirstFailedStatusOk(owns)
            THEN \E need, valid \in BOOLEAN, ws \in WriteStatuses :
                   LET r == TryGenerateNewTsk(master_.token_signer, need, ws) IN
                     /\ sys_security' = [sys_security EXCEPT !.tsks = r.tsks]
                     /\ master_' = [master_ EXCEPT !.token_signer = r.keys,
                                                   !.key_seq = r.key_seq]
                     /\ state_' = IF r.ok \/ valid THEN state_ ELSE "kCrashed"
            ELSE UNCHANGED <<sys_security, master_, state_>>
  /\ UNCHANGED <<message_queue_, rpc_task, background_tasks_, leader_ready_term, current_term, leader_is_self,
                 gate_writer, gate_wwait, elect_cb, prep, dirVars>>

(* Leadership with its security material: every life-cycle event and       *)
(* election, the prepare task with its certificate-authority and            *)
(* token-signer steps, other masters, and the background thread.            *)
NextSecurity ==
  \/ Environment
  \/ DirtyCallback
  \/ OtherMasterStoresCa
  \/ PrepStart \/ PrepWait \/ PrepTerm \/ PrepLock \/ PrepLoad
  \/ InitCertAuthority \/ InitTokenSigner
  \/ PrepReady
  \/ BgRefreshTsk \/ Return(BgThread)

SpecSecurity == Init /\ [][NextSecurity]_vars

\* C22: leader_ready_term changes only at the end of a prepare task, to the
\* term the task read before waiting for catch-up and read again afterwards,
\* after its reload, certificate-authority and token-signer steps all
\* completed, each of them with the gate held for writing; and a prepare
\* task that starts with leader_ready_term equal to the current term changes
\* nothing but the queue it was taken from.
C22_ReadyTermOnlyAfterPrepare ==
  [][/\ leader_ready_term' # leader_ready_term =>
          /\ prep.pc = "ready"
          /\ prep.ok = {"load", "ca", "tsk"}
          /\ leader_ready_term' = prep.term
          /\ prep.term = prep.term_before_wait
     /\ (prep'.ok # prep.ok /\ prep'.ok # {}) => gate_writer
     /\ (prep.pc = "idle" /\ elect_cb' < elect_cb
           /\ leader_ready_term = current_term) =>
          /\ prep' = IdlePrep
          /\ UNCHANGED <<state_, leader_ready_term, current_term, leader_is_self,
                         gate_readers, gate_writer, gate_wwait, dirVars, th,
                         sideVars>>]_vars

\* the ready term was published for a second term, and another callback of
\* that term is queued
C22_Witness ==
  /\ leader_ready_term = 2 /\ current_term = 2
  /\ prep = IdlePrep /\ elect_cb = 1
  /\ master_.cert_authority # NoKey

\* C23: the certificate authority is only ever initialized with the key pair
\* of the system tablet's CA record, a key enters the token signer only when
\* its entry is in the system tablet, and a key whose entry was not stored is
\* not in the signer.
C23_InstalledAfterStored ==
  [][/\ master_'.cert_authority \in {NoKey, sys_security'.ca}
     /\ (master_'.token_signer \ master_.token_signer) \subseteq sys_security'.tsks
     /\ (master_'.key_seq > master_.key_seq
          /\ master_'.key_seq \notin sys_security'.tsks) =>
           master_'.key_seq \notin master_'.token_signer
     /\ (master_'.generated > master_.generated
          /\ sys_security'.ca # master_'.generated) =>
           master_'.cert_authority = master_.cert_authority]_vars

\* a generated key pair was discarded after its store failed, a later one
\* was stored and installed, and the signer holds a stored key
C23_Witness ==
  /\ master_.generated = 2 /\ sys_security.ca = 2
  /\ master_.cert_authority = 2
  /\ master_.token_signer # {}
  /\ master_.key_seq = 2 /\ 1 \notin master_.token_signer


(***************************************************************************)
(* The tablet life cycle: CreateTable, DeleteTable, the reconciler and     *)
(* tablet reports, checked under SpecLife.                                 *)
(***************************************************************************)
\* a tablet server reports a tablet only once a CreateTablet RPC named it:
\* the tablet is past PREPARING.  Reports with and without a leader, in
\* state RUNNING or not, and with a second leader for the same term.
LifeReports ==
  {r \in {Report("ts1", "RUNNING", 0, 1, "ts1", {"ts1", "ts2"}, 0),
          Report("ts1", "OTHER", 0, 1, "ts1", {"ts1", "ts2"}, 0),
          Report("ts1", "RUNNING", 0, 1, NoTS, {"ts1", "ts2"}, 0),
          Report("ts1", "RUNNING", 1, 1, "ts2", {"ts1", "ts2"}, 0),
          [Report("ts1", "RUNNING", 0, 1, "ts1", {"ts1", "ts2"}, 0)
             EXCEPT !.tablet = 2]} :
     tab[r.tablet] # NoObj => tab[r.tablet].st.state # "PREPARING"}

NextLife ==
  \/ StartupOnce
  \/ PrepareForLeadershipTask
  \/ CatalogManagerBgTasks
  \/ CreateTable(1, BgCreateReqs) \/ DeleteTable(1, BgDeleteReqs)
  \/ ProcessTabletReport(1, LifeReports) \/ Return(1)

SpecLife == Init /\ [][NextLife]_vars

\* the edges of the tablet state machine
AllowedTabletChange(a, b) ==
  \/ a = "PREPARING" /\ b = "CREATING"
  \/ a = "CREATING" /\ b \in {"RUNNING", "REPLACED"}
  \/ a # "DELETED" /\ b = "DELETED"

CStateReports ==
  {r \in {Report("ts1", "RUNNING", opid, term, leader, {"ts1", "ts2"}, 0) :
            opid \in {0, 1}, term \in {1, 2},
            leader \in {NoTS, "ts1", "ts2", "ts3"}} :
     tab[r.tablet] # NoObj => tab[r.tablet].st.state # "PREPARING"}

NextCState ==
  \/ StartupOnce
  \/ PrepareForLeadershipTask
  \/ CatalogManagerBgTasks
  \/ CreateTable(1, BgCreateReqs)
  \/ ProcessTabletReport(1, CStateReports) \/ Return(1)

SpecCState == Init /\ [][NextCState]_vars

\* handler h's ReportProcess step writes and commits, and its report reaches
\* step 7b for the tablet it is about
ReachesStep7(h) ==
  /\ th[h].pc = "tr_lock" /\ th'[h].pc = "tr_schema" /\ th[h].held # {}
  /\ LET r == th[h].parts[1]
         trec == tab[r.tablet].st
         prev == PrevCState(trec)
     IN /\ ~TabletIsDeleted(trec) /\ ~TableIsDeleted(tbl[trec.table_id].st)
        /\ r.ts \in prev.peers \/ r.cs.opid >= prev.opid
        /\ ~r.error /\ r.cs # NoCState /\ r.cs.opid # kInvalidOpIdIndex

\* the cached consensus state of the reported tablet becomes the reported
\* one (committed config and term; the leader when the report names one)
CStateReplaced(h) ==
  LET r == th[h].parts[1]
      new == tab'[r.tablet].st.cstate
  IN /\ new.opid = r.cs.opid /\ new.peers = r.cs.peers /\ new.term = r.cs.term
     /\ r.cs.leader \in r.cs.peers => new.leader = r.cs.leader

CStateKept(h) ==
  LET r == th[h].parts[1] IN
  tab'[r.tablet].st.cstate = tab[r.tablet].st.cstate

\* C25 as stated: the cached consensus state is replaced with the reported
\* one exactly when the reported committed opid-index is greater than the
\* cached one, or the report names a leader that is a member of its
\* committed config while the cached state names none, or the reported term
\* is greater than the cached term; otherwise it is left unchanged.
C25_ReplacedOnIndexLeaderOrTerm ==
  [][\A h \in Handlers : ReachesStep7(h) =>
       LET r == th[h].parts[1]
           prev == PrevCState(tab[r.tablet].st)
           accept == \/ r.cs.opid > prev.opid
                     \/ r.cs.leader \in r.cs.peers /\ prev.leader = NoTS
                     \/ r.cs.term > prev.term
       IN IF accept THEN CStateReplaced(h) ELSE CStateKept(h)]_vars

\* C25 (amended): the cached consensus state is replaced with the reported
\* one exactly when the reported committed opid-index is greater than the
\* cached one, or the report names a leader that is a member of its
\* committed config and either the cached state names none or the reported
\* term is greater than the cached term -- unless the report names, for the
\* cached term, a leader other than the cached one; in every other case the
\* cached consensus state is left unchanged.
C25_ReplacedOnIndexOrLeader ==
  [][\A h \in Handlers : ReachesStep7(h) =>
       LET r == th[h].parts[1]
           prev == PrevCState(tab[r.tablet].st)
           member == r.cs.leader \in r.cs.peers
           accept == \/ r.cs.opid > prev.opid
                     \/ member /\ (prev.leader = NoTS \/ r.cs.term > prev.term)
           divergent == /\ r.cs.term = prev.term /\ member
                        /\ prev.leader # NoTS /\ r.cs.leader # prev.leader
       IN IF accept /\ ~divergent THEN CStateReplaced(h) ELSE CStateKept(h)]_vars

\* a report with a greater term that names no leader was processed and the
\* cached state, which has the older term, was kept
C25_Witness ==
  \E h \in Handlers :
     /\ th[h].pc = "tr_schema" /\ th[h].held # {}
     /\ LET r == th[h].parts[1] IN
          /\ r.cs.leader = NoTS /\ r.cs.term = 2
          /\ tab[r.tablet].st.cstate.term = 1
          /\ tab[r.tablet].st.cstate.opid >= r.cs.opid


(***************************************************************************)
(* Changes of the committed config under tablet reports, checked under     *)
(* SpecConfig.                                                             *)
(***************************************************************************)
\* reports of ts1 about tablet 1 once it is past PREPARING: the config
\* {ts1, ts2} led by ts1, the config {ts1} that follows it, a config with a
\* pending change, a config led by ts2, and a later config of the same term
\* reported without a leader
ConfigReports ==
  {r \in {Report("ts1", "RUNNING", 0, 1, "ts1", {"ts1", "ts2"}, 0),
          Report("ts1", "RUNNING", 1, 1, "ts1", {"ts1"}, 0),
          [Report("ts1", "RUNNING", 1, 1, "ts1", {"ts1", "ts3"}, 0)
             EXCEPT !.pending = TRUE],
          Report("ts1", "RUNNING", 1, 2, "ts2", {"ts1", "ts2"}, 0),
          Report("ts1", "RUNNING", 1, 1, NoTS, {"ts1", "ts2"}, 0)} :
     tab[r.tablet] # NoObj => tab[r.tablet].st.state # "PREPARING"}

NextConfig ==
  \/ StartupOnce
  \/ PrepareForLeadershipTask
  \/ CatalogManagerBgTasks
  \/ CreateTable(1, BgCreateReqs)
  \/ ProcessTabletReport(1, ConfigReports) \/ Return(1)

SpecConfig == Init /\ [][NextConfig]_vars

\* the tombstones handler h's ReportProcess step queues for peer p
TombstonesQueued(h, p) ==
  {k \in th'[h].adds \ th[h].adds : k.type = "DeleteReplica" /\ k.ts = p}

\* C26 as stated: for each peer of the previously cached committed config
\* that the accepted report's committed config lacks, exactly one
\* DeleteTablet(TOMBSTONED) task is scheduled, and its CAS opid-index is the
\* opid-index of the reported committed config.
C26_TombstoneCasIsNewIndex ==
  [][\A h \in Handlers :
       ReachesStep7(h) /\ CStateReplaced(h) /\ ~CStateKept(h) =>
         LET r == th[h].parts[1]
             trec == tab[r.tablet].st
         IN \A p \in PrevCState(trec).peers \ r.cs.peers :
              TombstonesQueued(h, p) =
                {AsyncDeleteReplica(trec.table_id, r.tablet, p, "TOMBSTONED",
                                    r.cs.opid)}]_vars

\* C26 (amended): for each peer of the previously cached committed config
\* that the accepted report's committed config lacks, exactly one
\* DeleteTablet(TOMBSTONED) task is scheduled, and its CAS opid-index is the
\* opid-index of the previously cached committed config.
C26_TombstoneCasIsCachedIndex ==
  [][\A h \in Handlers :
       ReachesStep7(h) /\ CStateReplaced(h) /\ ~CStateKept(h) =>
         LET r == th[h].parts[1]
             trec == tab[r.tablet].st
         IN \A p \in PrevCState(trec).peers \ r.cs.peers :
              TombstonesQueued(h, p) =
                {AsyncDeleteReplica(trec.table_id, r.tablet, p, "TOMBSTONED",
                                    PrevCState(trec).opid)}]_vars

\* the cached config {ts1, ts2} of index 0 was replaced by the reported
\* config {ts1} of index 1 and a tombstone for ts2 is queued
C26_Witness ==
  \E h \in Handlers :
     /\ th[h].pc = "tr_schema" /\ th[h].held # {}
     /\ tab[1].st.cstate.opid = 1 /\ tab[1].st.cstate.peers = {"ts1"}
     /\ \E k \in th[h].adds :
          k.type = "DeleteReplica" /\ k.ts = "ts2" /\ k.cas = 0


(***************************************************************************)
(* Reported schema versions and the end of an alter, checked under         *)
(* SpecVersion.                                                            *)
(***************************************************************************)
\* reports of ts1 about a tablet past PREPARING: one that brings a
\* consensus state with a leader, and one without consensus state, each with
\* the old and the new schema version
VersionReports ==
  {r \in {Report("ts1", "RUNNING", 0, 1, "ts1", {"ts1"}, 0),
          Report("ts1", "RUNNING", 0, 1, "ts1", {"ts1"}, 1),
          SchemaReport(1, 0), SchemaReport(1, 1)} :
     tab[r.tablet] # NoObj => tab[r.tablet].st.state # "PREPARING"}

NextVersion ==
  \/ StartupOnce
  \/ PrepareForLeadershipTask
  \/ CatalogManagerBgTasks
  \/ CreateTable(1, BgCreateReqs)
  \/ AlterTable(1, {AddColumn, DropRange(0, 0)})
  \/ ProcessTabletReport(1, VersionReports) \/ Return(1)

SpecVersion == Init /\ [][NextVersion]_vars

\* handler h's step 13: HandleTabletSchemaVersionReport for the reported
\* tablet
SchemaVersionStep(h) ==
  th[h].pc = "tr_schema" /\ th'[h].pc = "done" /\ th[h].held # {}

\* the step takes the table from ALTERING to RUNNING: then the fully applied
\* schema is cleared, the system tablet holds the new record, and no version
\* in the multiset is below the table's version
AlterEndsOnlyAtVersion(h) ==
  LET i == th[h].tbl IN
  (tbl[i].st.state = "ALTERING" /\ tbl'[i].st.state = "RUNNING") =>
     /\ tbl'[i].st.fas = NoSchema
     /\ sys_tables'[i] = tbl'[i].st
     /\ \A v \in NOT_YET_REPORTED..MaxVersion :
          tbl'[i].svc[v] > 0 => v >= tbl'[i].st.version

\* C27 as stated: only the tablets the report mutated have their reported
\* schema version fed into the table's schema-version multiset, and the
\* table moves from ALTERING to RUNNING (fully_applied_schema cleared,
\* persisted before the commit) only if afterwards the minimum version in
\* the multiset is at least the table's current version.
C27_VersionOfMutatedTabletsOnly ==
  [][\A h \in Handlers : SchemaVersionStep(h) =>
       LET t == th[h].parts[1].tablet IN
       /\ (tab'[t].rsv # tab[t].rsv \/ tbl'[th[h].tbl].svc # tbl[th[h].tbl].svc)
            => t \in th[h].mutated
       /\ AlterEndsOnlyAtVersion(h)]_vars

\* C27 (amended): every tablet of the report that the master knows, mutated
\* by the report or not, has its reported schema version fed into the
\* table's schema-version multiset (a version above the one the tablet
\* reported before becomes the tablet's version), and the table moves from
\* ALTERING to RUNNING (fully_applied_schema cleared, persisted before the
\* commit) only if afterwards the minimum version in the multiset is at
\* least the table's current version.
C27_VersionOfEveryReportedTablet ==
  [][\A h \in Handlers : SchemaVersionStep(h) =>
       LET r == th[h].parts[1]
           t == r.tablet
       IN
       /\ tab'[t].rsv = IF r.sv > tab[t].rsv /\ tbl[th[h].tbl].tmap[tab[t].st.pstart] = t
                          THEN r.sv ELSE tab[t].rsv
       /\ tab'[t].rsv # tab[t].rsv =>
            tbl'[th[h].tbl].svc[r.sv] = tbl[th[h].tbl].svc[r.sv] + 1
       /\ AlterEndsOnlyAtVersion(h)]_vars

\* an alter ended by the report of a tablet that the report did not mutate
C27_Witness ==
  \E h \in Handlers :
     /\ th[h].pc = "done" /\ th[h].op = "TSHeartbeat" /\ th[h].st = "OK"
     /\ \E i \in table_ids_map :
          /\ tbl[i].st.state = "RUNNING" /\ tbl[i].st.version = 1
          /\ \E t \in tablet_map :
               /\ tab[t].st.table_id = i /\ tab[t].rsv = 1
               /\ tab[t].st.state = "CREATING"


(***************************************************************************)
(* Replacement before eviction, checked under SpecConfig.                  *)
(***************************************************************************)
\* C28: with replacement-before-eviction enabled, the processing of a report
\* schedules a ChangeConfig task for the tablet only when the reporting
\* server is the leader the report names and the report has no pending
\* config; it schedules at most one ChangeConfig task, an eviction when the
\* policy asks for one and an addition otherwise, and the request of an
\* addition adds a NON_VOTER with promote = TRUE.
C28_ChangeConfigOnlyFromLeader ==
  \A h \in Handlers :
     (th[h].pc = "tr_lock" /\ th[h].todo = {} /\ th[h].held # {}) =>
       \A advice \in {"none", "evict", "add"} :
          LET r == th[h].parts[1]
              t == r.tablet
              out == ReportOutcome(t, tab[t].st, tbl[th[h].tbl].st, r, TRUE,
                                   advice)
              cc == {k \in out.rpcs : k.type \in {"AddReplica", "EvictReplica"}}
          IN /\ cc # {} => /\ r.cs # NoCState /\ r.cs.leader = r.ts
                           /\ ~r.pending
             /\ Cardinality(cc) <= 1
             /\ advice = "evict" => \A k \in cc : k.type = "EvictReplica"
             /\ \A k \in cc : k.type = "AddReplica" =>
                  /\ AddReplicaRequest(k, TRUE).member_type = "NON_VOTER"
                  /\ AddReplicaRequest(k, TRUE).promote


(***************************************************************************)
(* The reconciler's replacement of a tablet whose creation timed out,      *)
(* checked under SpecBg.                                                   *)
(***************************************************************************)
\* the reconciler's round ends in this step (lines 3887-3984)
RoundEnds ==
  /\ th[BgThread].pc = "pa_lock" /\ th[BgThread].todo = {}
  /\ th'[BgThread].pc = "done"

\* tablet n is the replacement this step minted for t: a new id, the
\* partition and table of t, CREATING with replicas selected; the one write
\* holds both tablets, the table's tablet map leads to n, and a CreateTablet
\* request goes to every replica of n
ReplacedBy(t, n) ==
  LET i == tab[t].st.table_id IN
  /\ n \notin tablet_map /\ n \in tablet_map' /\ sys_tablets[n] = NoRec
  /\ tab'[t].st = [tab[t].st EXCEPT !.state = "REPLACED"]
  /\ tab'[n].st.state = "CREATING" /\ tab'[n].st.table_id = i
  /\ tab'[n].st.pstart = tab[t].st.pstart /\ tab'[n].st.pend = tab[t].st.pend
  /\ sys_tablets'[t] = tab'[t].st /\ sys_tablets'[n] = tab'[n].st
  /\ tbl'[i].tmap[tab[t].st.pstart] = n
  /\ \A k \in Keys : tbl'[i].tmap[k] # t
  /\ tab'[n].st.cstate.peers # {}
  /\ \A p \in tab'[n].st.cstate.peers :
       ReplicaTask("CreateReplica", i, n, p, kInvalidOpIdIndex) \in tasks'

MarkComplete_Store(state) == "kStateComplete"

\* lines 2467-2479: NoBarrier_CompareAndSwap(&state_, kStateRunning, ...)
MarkComplete(state) ==
  IF state = "kStateRunning" THEN "kStateComplete" ELSE state
MarkAborted(state) ==
  IF state = "kStateRunning" THEN "kStateAborted" ELSE state
MarkFailed(state) ==
  IF state = "kStateRunning" THEN "kStateFailed" ELSE state

\* a retry is scheduled whatever the state of the task
RescheduleWithBackoffDelay_AnyState(task) ==
  IF task.expired THEN [ok |-> FALSE, state |-> MarkFailed(task.state)]
  ELSE [ok |-> TRUE, state |-> task.state]

\* RescheduleWithBackoffDelay (lines 2568-2595): FALSE when the task is not
\* running or no time is left before deadline_ (then MarkFailed)
RescheduleWithBackoffDelay(task) ==
  IF task.state # "kStateRunning" THEN [ok |-> FALSE, state |-> task.state]
  ELSE IF task.expired THEN [ok |-> FALSE, state |-> MarkFailed(task.state)]
  ELSE [ok |-> TRUE, state |-> task.state]

\* UnregisterAsyncTask (lines 2613-2622) and TableInfo::RemoveTask (lines
\* 4599-4608): the task leaves the table's pending_tasks_
UnregisterAsyncTask(task) ==
  [task EXCEPT !.pending = FALSE, !.removals = @ + 1, !.pc = "unregistered"]

\* ScheduleOnReactor(RunDelayedTask), lines 2591-2593
ScheduleOnReactor(task) ==
  [task EXCEPT !.scheduled = TRUE, !.pc = "delayed"]

\* a check that lets every request through
CheckOpIdIndex_Always(call) == TRUE

\* AsyncChangeConfigTask::CheckOpIdIndex (lines 3063-3078): the committed
\* opid index of the tablet, read under the tablet's read lock, is not
\* greater than the index of the task's consensus state
CheckOpIdIndex(call) ==
  ~(tab[call.tablet].st.cstate.opid > call.cas)

\* what SendRequest can do: "sent", "no" (no callback will occur) or
\* "aborted" (CheckOpIdIndex found a newer config and marked the task
\* aborted, lines 3119 and 3231).  A task that stands for any subclass can
\* do each; an AsyncAddReplicaTask finds a replacement replica or not (line
\* 3138), an AsyncEvictReplicaTask always sends
SendOutcomes(task) ==
  IF task.call = NoCall THEN {"sent", "no", "aborted"}
  ELSE IF ~CheckOpIdIndex(task.call) THEN {"aborted"}
  ELSE IF task.call.type = "AddReplica" THEN {"sent", "no"}
  ELSE {"sent"}

\* the ChangeConfigRequestPB of lines 3176-3180 and 3238-3242
ChangeConfigRequest(call) ==
  IF call = NoCall THEN NoCall
  ELSE [type |-> IF call.type = "AddReplica" THEN "ADD_PEER" ELSE "REMOVE_PEER",
        tablet |-> call.tablet, cas_config_opid_index |-> call.cas]

\* Run (lines 2522-2549).  fail is FLAGS_catalog_manager_fail_ts_rpcs,
\* proxy whether ResetTSProxy succeeds, send what SendRequest does
TaskRun(fails) ==
  /\ rpc_task.pc = "run"
  /\ \E fail \in fails, proxy \in BOOLEAN, send \in SendOutcomes(rpc_task) :
       /\ (~fail /\ proxy) => rpc_task.attempt < MaxAttempts
       /\ IF fail
            THEN rpc_task' = UnregisterAsyncTask(
                               [rpc_task EXCEPT !.state = MarkFailed(@)])
          ELSE IF proxy /\ send = "sent"
            THEN rpc_task' = [rpc_task EXCEPT !.attempt = @ + 1, !.pc = "sent",
                                              !.resp = "none", !.handled = FALSE,
                                              !.inflight = TRUE,
                                              !.req = ChangeConfigRequest(rpc_task.call)]
          ELSE LET t1 == [rpc_task EXCEPT
                            !.attempt = IF proxy THEN @ + 1 ELSE @,
                            !.state = IF proxy /\ send = "aborted"
                                        THEN MarkAborted(@) ELSE @]
                   r == RescheduleWithBackoffDelay(t1)
               IN rpc_task' =
                    IF r.ok THEN ScheduleOnReactor(t1)
                    ELSE UnregisterAsyncTask(
                           [t1 EXCEPT !.state = MarkFailed(r.state)])
  /\ UNCHANGED <<coreVars, message_queue_, sys_security, master_, background_tasks_>>

\* RpcCallback, lines 2552-2558: the RPC ended with an error, or with a
\* response that HandleResponse gets unless the task is seen aborted
RpcCallbackBegin(responses) ==
  /\ rpc_task.pc = "sent"
  /\ \E r \in responses :
       rpc_task' = [rpc_task EXCEPT
                      !.resp = r,
                      !.inflight = FALSE,
                      !.pc = IF r # "rpc_error" /\ rpc_task.state # "kStateAborted"
                               THEN "handle" ELSE "reschedule"]
  /\ UNCHANGED <<coreVars, message_queue_, sys_security, master_, background_tasks_>>

\* HandleResponse of the subclasses: MarkComplete on success and on the
\* errors that end the task (2707-2795, 2950-2959, 3037), MarkFailed on a
\* CAS failure of a ChangeConfig (3052), nothing when a retry is wanted
HandleResponse ==
  /\ rpc_task.pc = "handle"
  /\ rpc_task' = [rpc_task EXCEPT
       !.state = IF rpc_task.resp \in {"ok", "fatal_complete"} THEN MarkComplete(@)
                 ELSE IF rpc_task.resp = "fatal_failed" THEN MarkFailed(@)
                 ELSE @,
       !.handled = TRUE,
       !.pc = "reschedule"]
  /\ UNCHANGED <<coreVars, message_queue_, sys_security, master_, background_tasks_>>

\* RpcCallback, lines 2560-2565: a retry is scheduled or the task
\* unregisters; the response is done with
RpcCallbackEnd ==
  /\ rpc_task.pc = "reschedule"
  /\ LET r == RescheduleWithBackoffDelay(rpc_task)
         t1 == [rpc_task EXCEPT !.state = r.state, !.resp = "none",
                                !.handled = FALSE]
     IN rpc_task' = IF r.ok THEN ScheduleOnReactor(t1)
                    ELSE UnregisterAsyncTask(t1)
  /\ UNCHANGED <<coreVars, message_queue_, sys_security, master_, background_tasks_>>

\* RunDelayedTask (lines 2597-2611): Run, or the end when the reactor shut
\* the timer down
RunDelayedTask ==
  /\ rpc_task.pc = "delayed"
  /\ \E status_ok \in BOOLEAN :
       rpc_task' = IF status_ok
                     THEN [rpc_task EXCEPT !.scheduled = FALSE, !.pc = "run"]
                     ELSE UnregisterAsyncTask([rpc_task EXCEPT !.scheduled = FALSE])
  /\ UNCHANGED <<coreVars, message_queue_, sys_security, master_, background_tasks_>>

\* Abort (lines 2431-2434), called by TableInfo::AbortTasks (lines
\* 4610-4615, from DeleteTable at line 1629) on any thread while the task is
\* among the table's pending tasks
TaskAbort ==
  /\ rpc_task.pending
  /\ rpc_task' = [rpc_task EXCEPT !.state = MarkAborted(@)]
  /\ UNCHANGED <<coreVars, message_queue_, sys_security, master_, background_tasks_>>

\* AbortAndWaitForAllTasks, lines 4294-4296: AbortTasks on the table
AbortTasks ==
  /\ rpc_task.waiter = "none"
  /\ rpc_task' = [rpc_task EXCEPT
                    !.state = IF rpc_task.pending THEN MarkAborted(@) ELSE @,
                    !.waiter = "waiting"]
  /\ UNCHANGED <<coreVars, message_queue_, sys_security, master_, background_tasks_>>

\* AbortAndWaitForAllTasks, lines 4297-4299: WaitTasksCompletion (lines
\* 4617-4629) returns once it finds pending_tasks_ empty
WaitTasksCompletion ==
  /\ rpc_task.waiter = "waiting"
  /\ ~rpc_task.pending
  /\ rpc_task' = [rpc_task EXCEPT !.waiter = "returned"]
  /\ UNCHANGED <<coreVars, message_queue_, sys_security, master_, background_tasks_>>

\* the constructor of AsyncChangeConfigTask (line 3025): never time out
AsyncChangeConfigTask ==
  /\ rpc_task.pc = "run" /\ rpc_task.attempt = 0 /\ ~rpc_task.never
  /\ ~rpc_task.expired /\ rpc_task.state = "kStateRunning"
  /\ rpc_task.waiter = "none"
  /\ rpc_task' = [rpc_task EXCEPT !.never = TRUE]
  /\ UNCHANGED <<coreVars, message_queue_, sys_security, master_, background_tasks_>>

\* time passes deadline_
DeadlinePasses ==
  /\ ~rpc_task.never
  /\ ~rpc_task.expired /\ rpc_task.pending
  /\ rpc_task' = [rpc_task EXCEPT !.expired = TRUE]
  /\ UNCHANGED <<coreVars, message_queue_, sys_security, master_, background_tasks_>>

\* what the RPC can end with: an RPC error, success, an error that ends the
\* task as complete or as failed, an error that asks for a retry
Responses == {"rpc_error", "ok", "fatal_complete", "fatal_failed", "retry"}

NextTask ==
  \/ TaskRun(BOOLEAN) \/ RpcCallbackBegin(Responses) \/ HandleResponse
  \/ RpcCallbackEnd
  \/ RunDelayedTask \/ TaskAbort \/ DeadlinePasses
  \/ AsyncChangeConfigTask \/ AbortTasks \/ WaitTasksCompletion

SpecTask == Init /\ [][NextTask]_vars

\* the reactor runs every callback and every timer, Run() returns, time
\* passes, and the thread in WaitTasksCompletion polls again
FairSpecTask ==
  /\ SpecTask
  /\ WF_vars(TaskRun(BOOLEAN)) /\ WF_vars(RpcCallbackBegin(Responses))
  /\ WF_vars(HandleResponse)
  /\ WF_vars(RpcCallbackEnd) /\ WF_vars(RunDelayedTask)
  /\ WF_vars(DeadlinePasses) /\ WF_vars(WaitTasksCompletion)

\* C30: the task starts in RUNNING and its state only ever changes from
\* RUNNING to COMPLETE, ABORTED or FAILED: at most once, so an aborted task
\* is not made COMPLETE or FAILED by a later response or timeout, and Abort
\* leaves a finished task as it is.
C30_TaskStateChangesOnce ==
  /\ rpc_task.state = "kStateRunning"
  /\ [][rpc_task'.state # rpc_task.state =>
          /\ rpc_task.state = "kStateRunning"
          /\ rpc_task'.state \in {"kStateComplete", "kStateAborted",
                                  "kStateFailed"}]_vars

\* HandleResponse ran on a successful response after Abort and the task is
\* still aborted
C30_Witness ==
  /\ rpc_task.state = "kStateAborted"
  /\ rpc_task.handled /\ rpc_task.resp = "ok"

\* the task is removed from the pending set at most once, and only when it
\* has neither an RPC in flight nor a delayed retry scheduled
RemovedOnceAndIdle ==
  [][rpc_task'.removals # rpc_task.removals =>
       /\ rpc_task.removals = 0 /\ rpc_task.pending /\ ~rpc_task'.pending
       /\ ~rpc_task'.inflight /\ ~rpc_task'.scheduled]_vars

\* after AbortTasks the pending set becomes empty and WaitTasksCompletion
\* returns
AbortedTasksComplete ==
  (rpc_task.waiter = "waiting") ~> (~rpc_task.pending /\ rpc_task.waiter = "returned")

\* C31 as stated: every task is eventually removed from the pending set,
\* exactly once and only when it has neither an RPC in flight nor a delayed
\* retry scheduled, and after AbortTasks the pending set becomes empty and
\* WaitTasksCompletion returns.
C31_EveryTaskRemoved ==
  /\ <>(~rpc_task.pending)
  /\ RemovedOnceAndIdle
  /\ AbortedTasksComplete

\* C31, amended: every task whose deadline is not "never", and every task
\* once it is aborted, is eventually removed from the pending set; a task is
\* removed at most once and only when it has neither an RPC in flight nor a
\* delayed retry scheduled; after AbortTasks the pending set becomes empty
\* and WaitTasksCompletion returns.
C31_TimedOrAbortedTaskRemoved ==
  /\ <>(rpc_task.never \/ ~rpc_task.pending)
  /\ (rpc_task.state = "kStateAborted") ~> (~rpc_task.pending)
  /\ RemovedOnceAndIdle
  /\ AbortedTasksComplete

\* a task that was aborted while its retry was scheduled has been removed
\* and the thread that waited for it has returned
C31_Witness ==
  /\ rpc_task.state = "kStateAborted" /\ rpc_task.attempt > 0
  /\ ~rpc_task.pending /\ rpc_task.removals = 1
  /\ rpc_task.waiter = "returned"

\* C38: an RPC is sent only while the task is RUNNING: once it is aborted,
\* complete or failed, no Run() sends a request, a retry that was scheduled
\* before the Abort included.
C38_NoRpcAfterLeavingRunning ==
  [][rpc_task'.inflight /\ ~rpc_task.inflight => rpc_task.state = "kStateRunning"]_vars

(***************************************************************************)
(* ChangeConfig tasks created by tablet reports and run while further      *)
(* reports change the tablet's committed config, checked under SpecChange. *)
(***************************************************************************)
\* reports of ts1, the leader, about tablet 1: the config {ts1, ts2} at
\* index 0 and the config of three peers at index 1 that follows it
ChangeReports ==
  {r \in {Report("ts1", "RUNNING", 0, 1, "ts1", {"ts1", "ts2"}, 0),
          Report("ts1", "RUNNING", 1, 1, "ts1", {"ts1", "ts2", "ts3"}, 0)} :
     tab[r.tablet] # NoObj => tab[r.tablet].st.state # "PREPARING"}

\* step 12, lines 3634-3643: before the handler of a report returns, a
\* ChangeConfig task it queued is constructed (never to time out, line
\* 3025), added to its table and run
DispatchChangeConfig ==
  /\ rpc_task = InitialTask
  /\ th[1].op = "TSHeartbeat" /\ th[1].pc = "done" /\ th[1].st = "OK"
  /\ \E k \in tasks :
       /\ k.type \in {"AddReplica", "EvictReplica"}
       /\ rpc_task' = [InitialTask EXCEPT !.call = k, !.never = TRUE]
  /\ UNCHANGED <<coreVars, message_queue_, sys_security, master_, background_tasks_>>

\* the task's steps are taken once it is constructed; no fault is
\* injected, the RPC fails or succeeds
TaskStep ==
  /\ rpc_task.call # NoCall
  /\ \/ TaskRun({FALSE}) \/ RpcCallbackBegin({"rpc_error", "ok"})
     \/ HandleResponse \/ RpcCallbackEnd \/ RunDelayedTask

NextChange ==
  \/ StartupOnce
  \/ PrepareForLeadershipTask
  \/ CatalogManagerBgTasks
  \/ CreateTable(1, BgCreateReqs)
  \/ ProcessTabletReport(1, ChangeReports) \/ Return(1)
  \/ DispatchChangeConfig
  \/ TaskStep

SpecChange == Init /\ [][NextChange]_vars

\* the committed opid index of the tablet of the task's call
LatestIndex == tab[rpc_task.call.tablet].st.cstate.opid

\* the step sends a request
SendsRequest == rpc_task'.inflight /\ ~rpc_task.inflight

\* every request carries the index of the consensus state the task was
\* created from, and none is sent once the tablet's index is greater
RequestCarriesTaskIndex ==
  [][rpc_task.call # NoCall /\ SendsRequest =>
       /\ rpc_task'.req.cas_config_opid_index = rpc_task.call.cas
       /\ rpc_task'.req.tablet = rpc_task.call.tablet
       /\ \E k \in tasks : k = rpc_task.call
       /\ ~(LatestIndex > rpc_task.call.cas)]_vars

\* C32 as stated: every ChangeConfig request carries the committed opid
\* index of the consensus state its task was created from, and a task whose
\* tablet's cached committed opid index has become greater sends no request
\* and ends in ABORTED.
C32_StaleTaskEndsAborted ==
  /\ RequestCarriesTaskIndex
  /\ [][/\ rpc_task.call # NoCall /\ rpc_task.pending /\ ~rpc_task'.pending
        /\ LatestIndex > rpc_task.call.cas
        => rpc_task'.state = "kStateAborted"]_vars

\* C32, amended: every ChangeConfig request carries the committed opid
\* index of the consensus state its task was created from, and a Run() that
\* reaches SendRequest while the tablet's cached committed opid index is
\* greater sends no request and ends the task in ABORTED.
C32_StaleTaskAbortsBeforeSending ==
  /\ RequestCarriesTaskIndex
  /\ [][/\ rpc_task.call # NoCall /\ rpc_task.pc = "run"
        /\ rpc_task'.attempt > rpc_task.attempt
        /\ LatestIndex > rpc_task.call.cas
        => /\ ~SendsRequest
           /\ rpc_task'.state = "kStateAborted"
           /\ ~rpc_task'.pending /\ rpc_task'.pc = "unregistered"]_vars

\* a task created at index 0 sent one request, was rescheduled, and its
\* next Run found the tablet at index 1: it is aborted and removed
C32_Witness ==
  /\ rpc_task.call # NoCall /\ rpc_task.call.cas = 0
  /\ rpc_task.attempt = 2
  /\ rpc_task.req # NoCall /\ rpc_task.req.cas_config_opid_index = 0
  /\ tab[rpc_task.call.tablet].st.cstate.opid = 1
  /\ rpc_task.state = "kStateAborted" /\ ~rpc_task.pending

(***************************************************************************)
(* Locking: DeleteTable, AlterTable and CreateTable on one handler, tablet *)
(* reports on another, and the reconciler.                                 *)
(***************************************************************************)
LockCreateReqs ==
  {[name |-> "a", nr |-> 1, valid |-> "ok", parts |-> << <<0, 1>>, <<1, 0>> >>]}
LockAlterReqs == {AddColumn, DropRange(0, 1)}
LockReports == {SchemaReport(2, 1)}
NextLocks ==
  \/ StartupOnce
  \/ PrepareForLeadershipTask
  \/ CatalogManagerBgTasks
  \/ CreateTable(1, LockCreateReqs) \/ DeleteTable(1, BgDeleteReqs)
  \/ AlterTable(1, LockAlterReqs) \/ Return(1)
  \/ ProcessTabletReport(2, LockReports) \/ Return(2)

SpecLocks == Init /\ [][NextLocks]_vars

\* the thread that takes the step
Actor(h) == th'[h] # th[h]

\* the step writes under lock_ (std::lock_guard<LockType> l(lock_))
ChangesDirectory ==
  \/ table_names_map' # table_names_map
  \/ table_ids_map' # table_ids_map
  \/ tablet_map' # tablet_map
  \/ reserved_table_names' # reserved_table_names

\* the step acquires the WRITE lock of an object other threads can reach
LocksTable(h, i) == tbl[i] # NoObj /\ tbl[i].wl # h /\ tbl'[i].wl = h
LocksTablet(h, t) == tab[t] # NoObj /\ tab[t].wl # h /\ tab'[t].wl = h

\* the WRITE locks a thread holds on objects in the directory
HeldTables(h) == {i \in TableIds : i \in table_ids_map /\ tbl[i].wl = h}
HeldTablets(h) == {t \in TabletIds : t \in tablet_map /\ tab[t].wl = h}

\* gate, then table lock, then tablet locks in ascending id
LockOrder(h) ==
  /\ (\E i \in TableIds : LocksTable(h, i)) =>
       h \in gate_readers /\ HeldTablets(h) = {}
  /\ \A t \in TabletIds : LocksTablet(h, t) =>
       /\ h \in gate_readers
       /\ \A u \in HeldTablets(h) : u < t
  /\ ChangesDirectory => h \in gate_readers

Blockers(h) ==
  LET r == th[h] IN
  IF r.pc \in {"dt_lock", "at_lock"}
    THEN {tbl[r.tbl].wl} \ {NoOwner}
  ELSE IF r.pc \in {"dt_tablets", "at_drops", "pa_lock", "tr_lock"} /\ r.todo # {}
    THEN {tab[NextTabletToLock(h, r.todo)].wl} \ {NoOwner}
  ELSE IF r.pc \in {"dt_commit", "at_commit"}
    THEN tbl[r.tbl].rd
  ELSE IF r.pc = "tr_schema" /\ r.held # {}
    THEN IF tbl[r.tbl].wl # NoOwner THEN {tbl[r.tbl].wl}
         ELSE IF tbl[r.tbl].st.state = "ALTERING" THEN tbl[r.tbl].rd
         ELSE {}
  ELSE {}

\* every thread of W waits for a thread of W
Deadlock(W) == W # {} /\ \A h \in W : Blockers(h) \cap W # {}

\* a thread that waits for a table's WRITE lock holds no metadata lock
TableWaitersHoldNothing ==
  \A h \in Threads : th[h].pc \in {"dt_lock", "at_lock", "tr_schema"} =>
    /\ \A i \in TableIds : tbl[i] # NoObj => tbl[i].wl # h /\ h \notin tbl[i].rd
    /\ \A t \in TabletIds : tab[t] # NoObj => tab[t].wl # h

C35_CachedIndexNeverDecreases ==
  [][\A t \in TabletIds :
       (tab[t] # NoObj /\ tab'[t] # NoObj /\ tab[t].st.cstate # NoCState) =>
         tab'[t].st.cstate.opid >= tab[t].st.cstate.opid]_vars

\* One tablet with replicas on ts1 and ts2, to which ts3 is added at index
\* 1: ts1 reports the first config as leader, ts3 the second one without
\* knowing the leader, and ts2, which has not seen the second config yet,
\* reports the first one with itself as the leader of a later term.
TopIndex == 1
StaleReports ==
  {r \in {Report("ts1", "RUNNING", 0, 1, "ts1", {"ts1", "ts2"}, 0),
          Report("ts3", "RUNNING", TopIndex, 1, NoTS, {"ts1", "ts2", "ts3"}, 0),
          Report("ts2", "RUNNING", 0, 2, "ts2", {"ts1", "ts2"}, 0)} :
     tab[r.tablet] # NoObj => tab[r.tablet].st.state # "PREPARING"}

NextStale ==
  \/ StartupOnce
  \/ PrepareForLeadershipTask
  \/ CatalogManagerBgTasks
  \/ CreateTable(1, BgCreateReqs)
  \/ ProcessTabletReport(1, StaleReports) \/ Return(1)

SpecStale == Init /\ [][NextStale]_vars

\* C36: a report's processing queues no DeleteTablet(TOMBSTONED) for a
\* tablet server that is a member of the committed config with the highest
\* opid-index accepted for the tablet.  No report carries an index above
\* TopIndex and one config only has that index, so a cached config of that
\* index is the highest one accepted.
C36_NoTombstoneForMemberOfLatestConfig ==
  [][\A h \in Handlers :
       (th[h].pc = "tr_lock" /\ th'[h].pc = "tr_schema" /\ th[h].held # {}) =>
         LET r == th[h].parts[1]
             trec == tab[r.tablet].st
             prev == PrevCState(trec)
         IN prev.opid = TopIndex =>
              \A p \in prev.peers : \A c \in -1..TopIndex :
                AsyncDeleteReplica(trec.table_id, r.tablet, p, "TOMBSTONED", c)
                  \notin th'[h].adds \ th[h].adds]_vars


(***************************************************************************)
(* The reconciler with one live tablet server and writes that succeed.     *)
(***************************************************************************)
\* table "a" wants one replica and table "b" three; both pass CreateTable's
\* check while three tablet servers are live, and one server is live at
\* every pass of the reconciler
StarveCreateReqs ==
  {[name |-> n, nr |-> IF n = "a" THEN 1 ELSE 3, valid |-> "ok",
    parts |-> WholeRange] : n \in {"a", "b"}}
LiveServers == {"ts1"}

NextStarve ==
  \/ StartupOnce
  \/ PrepareForLeadershipTask
  \/ BgBegin \/ BgLockTablet
  \/ ProcessPendingAssignments({LiveServers}, {"OK"})
  \/ Return(BgThread)
  \/ CreateTable(1, StarveCreateReqs) \/ Return(1)

SpecStarve == Init /\ [][NextStarve]_vars

\* the reconciler's loop keeps running and the leader's initialization
\* completes
FairSpecStarve ==
  /\ SpecStarve
  /\ WF_vars(StartupOnce \/ PrepareForLeadershipTask)
  /\ WF_vars(BgBegin) /\ WF_vars(BgLockTablet)
  /\ WF_vars(ProcessPendingAssignments({LiveServers}, {"OK"}))
  /\ WF_vars(Return(BgThread))

\* a PREPARING tablet in the tablet map whose table wants no more replicas
\* than there are live tablet servers
Assignable(t) ==
  /\ t \in tablet_map /\ tab[t].st.state = "PREPARING"
  /\ tbl[tab[t].st.table_id].st.num_replicas <= Cardinality(LiveServers)

\* C37: with a fair reconciler and successful writes, every PREPARING tablet
\* whose table's num_replicas is at most the number of live tablet servers
\* eventually is CREATING with its create RPCs dispatched, also when a
\* tablet of the same batch belongs to a table that wants more replicas
C37_AssignableTabletIsCreated ==
  \A t \in TabletIds :
    Assignable(t) ~>
      /\ t \in tablet_map /\ tab[t].st.state = "CREATING"
      /\ \E k \in tasks : k.type = "CreateReplica" /\ k.tablet = t


(***************************************************************************)
(* fully_applied_schema and the table state, checked under SpecVersion.    *)
(***************************************************************************)
\* C39: a table whose committed record is not REMOVED and has
\* fully_applied_schema is ALTERING (GetTableSchema's CHECK_EQ never
\* fails); the same of the record in the system tablet, which a reload
\* turns into the committed record
C39_AppliedSchemaOnlyWhileAltering ==
  \A i \in TableIds :
    /\ (tbl[i] # NoObj /\ tbl[i].st.state # "REMOVED"
          /\ tbl[i].st.fas # NoSchema) => tbl[i].st.state = "ALTERING"
    /\ (sys_tables[i] # NoRec /\ sys_tables[i].state # "REMOVED"
          /\ sys_tables[i].fas # NoSchema) => sys_tables[i].state = "ALTERING"

\* the table is ALTERING with fully_applied_schema set after its tablet
\* reported the new version: the write that ends the alter failed
C39_Witness ==
  /\ tbl[1] # NoObj /\ tbl[1].st.state = "ALTERING"
  /\ tbl[1].st.fas # NoSchema /\ tbl[1].st.version = 1
  /\ tab[1] # NoObj /\ tab[1].rsv = 1


(***************************************************************************)
(* CatalogManagerBgTasks: Wake, Wait and the worker's loop.                *)
(***************************************************************************)
MaxPublished == 3   \* publications (CreateTable, AlterTable) of one run

\* a Wake that broadcasts without recording the update
Wake_BroadcastOnly(bg) ==
  [bg EXCEPT !.signalled = (bg.pc = "sleep"), !.woken = TRUE]

\* lines 439-443: Wake, under lock_; the broadcast reaches a worker that is
\* inside TimedWait
Wake(bg) ==
  [bg EXCEPT !.pending_updates_ = TRUE, !.signalled = (bg.pc = "sleep"),
             !.woken = TRUE]

\* lines 484-485: the loop's test and the start of an iteration, which
\* extracts the tablets published so far
RunLoop ==
  /\ background_tasks_.pc = "run"
  /\ background_tasks_' =
       IF background_tasks_.closing_
         THEN [background_tasks_ EXCEPT !.pc = "exit"]
         ELSE [background_tasks_ EXCEPT !.pc = "body",
                                        !.seen = background_tasks_.published]
  /\ UNCHANGED <<coreVars, message_queue_, sys_security, master_, rpc_task>>

\* lines 486-539: the rest of the iteration
RunBody ==
  /\ background_tasks_.pc = "body"
  /\ background_tasks_' = [background_tasks_ EXCEPT !.pc = "wait"]
  /\ UNCHANGED <<coreVars, message_queue_, sys_security, master_, rpc_task>>

\* lines 445-452: Wait up to TimedWait, under lock_
WaitBegin ==
  /\ background_tasks_.pc = "wait"
  /\ background_tasks_' =
       IF background_tasks_.closing_
         THEN [background_tasks_ EXCEPT !.pc = "run", !.woken = FALSE]
       ELSE IF ~background_tasks_.pending_updates_
         THEN [background_tasks_ EXCEPT !.pc = "sleep", !.signalled = FALSE]
       ELSE [background_tasks_ EXCEPT !.pending_updates_ = FALSE,
                                      !.pc = "run", !.woken = FALSE]
  /\ UNCHANGED <<coreVars, message_queue_, sys_security, master_, rpc_task>>

\* lines 449-451: TimedWait returns because of the broadcast
WaitNotified ==
  /\ background_tasks_.pc = "sleep" /\ background_tasks_.signalled
  /\ background_tasks_' =
       [background_tasks_ EXCEPT !.pending_updates_ = FALSE, !.pc = "run",
                                 !.signalled = FALSE, !.woken = FALSE]
  /\ UNCHANGED <<coreVars, message_queue_, sys_security, master_, rpc_task>>

\* lines 449-451: TimedWait returns after FLAGS_catalog_manager_bg_task_wait_ms
WaitTimeout ==
  /\ background_tasks_.pc = "sleep" /\ ~background_tasks_.signalled
  /\ background_tasks_' =
       [background_tasks_ EXCEPT !.pending_updates_ = FALSE, !.pc = "run",
                                 !.woken = FALSE]
  /\ UNCHANGED <<coreVars, message_queue_, sys_security, master_, rpc_task>>

\* lines 1438-1447 (CreateTable, step h) and 2096-2112 (AlterTable, step 8):
\* a handler publishes tablets
Publish ==
  /\ background_tasks_.caller = "idle"
  /\ background_tasks_.published < MaxPublished
  /\ background_tasks_' =
       [background_tasks_ EXCEPT !.published = @ + 1, !.caller = "published"]
  /\ UNCHANGED <<coreVars, message_queue_, sys_security, master_, rpc_task>>

\* lines 1452 and 2153: background_tasks_->Wake()
CallerWake ==
  /\ background_tasks_.caller = "published"
  /\ background_tasks_' = [Wake(background_tasks_) EXCEPT !.caller = "idle"]
  /\ UNCHANGED <<coreVars, message_queue_, sys_security, master_, rpc_task>>

\* lines 471-478: Shutdown sets closing_ and wakes the worker
BgTasksShutdown ==
  /\ ~background_tasks_.closing_
  /\ background_tasks_' = [Wake(background_tasks_) EXCEPT !.closing_ = TRUE]
  /\ UNCHANGED <<coreVars, message_queue_, sys_security, master_, rpc_task>>

NextWake ==
  \/ RunLoop \/ RunBody \/ WaitBegin \/ WaitNotified \/ WaitTimeout
  \/ Publish \/ CallerWake \/ BgTasksShutdown

SpecWake == Init /\ [][NextWake]_vars

\* the worker and the handler take their steps; nothing makes the timeout
\* of TimedWait expire
FairSpecWake ==
  /\ SpecWake
  /\ WF_vars(RunLoop) /\ WF_vars(RunBody) /\ WF_vars(WaitBegin)
  /\ WF_vars(WaitNotified) /\ WF_vars(CallerWake)

\* a Wait that sleeps until its timeout had no Wake since the last Wait
\* returned
NoTimeoutAfterWake ==
  [][(background_tasks_.pc = "sleep" /\ background_tasks_'.pc = "run"
        /\ ~background_tasks_.signalled) => ~background_tasks_.woken]_vars

\* whatever a handler has published and woken the worker for, an iteration
\* starts after it without the help of the timeout
PublishedIsSeen ==
  \A n \in 1..MaxPublished :
    (background_tasks_.published >= n /\ background_tasks_.caller = "idle") ~>
      (background_tasks_.seen >= n \/ background_tasks_.closing_)

\* C40: a Wake of the reconciler at any moment, also in the middle of an
\* iteration, is not lost: the next Wait does not sleep for the timeout,
\* and the tablets published before the Wake are picked up by the
\* iteration that follows
C40_WakeIsNotLost == NoTimeoutAfterWake /\ PublishedIsSeen

\* a handler published after the iteration had started and called Wake;
\* the Wait that followed has consumed the update and returned, and the next
\* iteration is about to start
C40_Witness ==
  /\ background_tasks_.pc = "run" /\ background_tasks_.seen = 0
  /\ background_tasks_.published = 1 /\ background_tasks_.caller = "idle"
  /\ ~background_tasks_.pending_updates_ /\ ~background_tasks_.woken
  /\ ~background_tasks_.closing_

====
